---- MODULE Spec2Model ----
(***************************************************************************)
(* Identity resolution, deduplication and caching pipeline of the WhatsApp *)
(* views of leblebbot (backend/api/routes.py, backend/api/connectors.py,   *)
(* backend/services/evolution_service.py and evolution_client.py).         *)
(*                                                                         *)
(* Strings are sequences of tokens.  A token is one character, except the  *)
(* identifier markers "@s.whatsapp.net", "@g.us", "@lid" and the words     *)
(* "status" and "broadcast", which only ever occur whole; TokLen gives the *)
(* number of characters of a token.  The empty sequence is the empty       *)
(* string, and it also stands for None where the code only tests           *)
(* truthiness.  A nullable number is <<>> (None) or <<n>>.                 *)
(***************************************************************************)
EXTENDS Integers, Sequences, FiniteSets, Bags, TLC

VARIABLES
    now,            \* time.time(), in seconds
    gw,             \* what the gateway (Evolution API) currently holds
    contactsCache,  \* _contacts_cache: [data, timestamp, ttl]
    messagesCache,  \* _messages_cache: cache key -> [data, timestamp]
    groupNames,     \* _group_names_cache: [data, timestamp, ttl]
    groupPics,      \* _group_pics_cache: [data, timestamp, ttl]
    profiles,       \* _contact_profiles_cache: phone -> profile
    mediaCache,     \* MEDIA_CACHE_DIR and _media_cache_info: [files, info], by cache key
    inflight,       \* the requests suspended at an await: request -> its local state
    last,           \* what the last handled request did and returned
    storedAt,       \* history: when each group subject and avatar was stored
    steps           \* requests handled so far

caches == <<contactsCache, messagesCache, groupNames, groupPics, profiles>>

vars == <<now, gw, contactsCache, messagesCache, groupNames, groupPics, profiles, mediaCache,
          inflight, last,
          storedAt, steps>>

-----------------------------------------------------------------------------
(* Strings *)

Digits == {"0", "1", "2", "3", "4", "5", "6", "7", "8", "9"}

SuffixDirect == "@s.whatsapp.net"
SuffixGroup == "@g.us"
SuffixLid == "@lid"

TokLen(t) ==
    CASE t = SuffixDirect -> 15
      [] t = SuffixGroup -> 5
      [] t = SuffixLid -> 4
      [] t = "status" -> 6
      [] t = "broadcast" -> 9
      [] t \in {"fpA", "fpB"} -> 12      \* an avatar file name, longer than 10
      [] t = "fpS" -> 5                  \* an avatar file name, too short
      [] OTHER -> 1

RECURSIVE StrLen(_)
StrLen(s) == IF s = <<>> THEN 0 ELSE TokLen(Head(s)) + StrLen(Tail(s))

\* `tok in s` for a marker or a word
Contains(s, tok) == \E i \in 1..Len(s) : s[i] = tok

\* s.replace(tok, "")
RECURSIVE Remove(_, _)
Remove(s, tok) ==
    IF s = <<>> THEN <<>>
    ELSE IF Head(s) = tok THEN Remove(Tail(s), tok)
    ELSE <<Head(s)>> \o Remove(Tail(s), tok)

\* s.split(sep)[0], for a one-character separator
RECURSIVE SplitFirst(_, _)
SplitFirst(s, sep) ==
    IF s = <<>> \/ Head(s) = sep THEN <<>>
    ELSE <<Head(s)>> \o SplitFirst(Tail(s), sep)

StartsWithAt(t) == t \in {"@", SuffixDirect, SuffixGroup, SuffixLid}

\* s.split("@")[0]
RECURSIVE BeforeAt(_)
BeforeAt(s) ==
    IF s = <<>> \/ StartsWithAt(Head(s)) THEN <<>>
    ELSE <<Head(s)>> \o BeforeAt(Tail(s))

\* s[-n:], on a string of one-character tokens
LastN(s, n) == IF Len(s) <= n THEN s ELSE SubSeq(s, Len(s) - n + 1, Len(s))

\* s[:n], on a string of one-character tokens
FirstN(s, n) == IF Len(s) <= n THEN s ELSE SubSeq(s, 1, n)

StartsWith(s, p) == Len(s) >= Len(p) /\ SubSeq(s, 1, Len(p)) = p

\* s.isdigit()
IsDigit(s) == s # <<>> /\ \A i \in 1..Len(s) : s[i] \in Digits

\* `sub in s` for strings of one-character tokens
IsSubstring(sub, s) ==
    \E i \in 0..(Len(s) - Len(sub)) : SubSeq(s, i + 1, i + Len(sub)) = sub

LowerTok(t) ==
    CASE t = "A" -> "a"
      [] t = "B" -> "b"
      [] t = "C" -> "c"
      [] t = "G" -> "g"
      [] t = "T" -> "t"
      [] t = "V" -> "v"
      [] t = "Y" -> "y"
      [] t = "Failed" -> "failed"
      [] t = "Media" -> "media"
      [] t = "No" -> "no"
      [] t = "Cannot" -> "cannot"
      [] t = "Connect" -> "connect"
      [] t = "Server" -> "server"
      [] t = "Incorrect" -> "incorrect"
      [] t = "Session" -> "session"
      [] t = "WhatsApp" -> "whatsapp"
      [] OTHER -> t

\* s.lower()
Lower(s) == [i \in 1..Len(s) |-> LowerTok(s[i])]

-----------------------------------------------------------------------------
(* clean_phone_number *)

MaxPhoneLen == 15
LongIdLen == 13
GroupTailLen == 10
PhoneTailLen == 12

StripSuffixes(jid) == Remove(Remove(Remove(jid, SuffixDirect), SuffixGroup), SuffixLid)

\* the id as it is, dashes kept
BeforeDashKept(phone) == phone

\* the part before the first "-" of an id longer than 13 characters
BeforeDash(phone) ==
    IF Contains(phone, "-") /\ StrLen(phone) > LongIdLen THEN SplitFirst(phone, "-")
    ELSE phone

\* a group id: it starts with "120" and is longer than 15 characters
IsGroupId(phone) == StartsWith(phone, <<"1", "2", "0">>) /\ StrLen(phone) > MaxPhoneLen

\* the length rules, dropping one leading character above 13 instead
CutToPhoneDropOne(phone) ==
    IF StrLen(phone) > MaxPhoneLen THEN <<>>
    ELSE IF StrLen(phone) > LongIdLen THEN Tail(phone)
    ELSE phone

\* the length rules: nothing above 15 characters, the last 12 above 13
CutToPhone(phone) ==
    IF StrLen(phone) > MaxPhoneLen THEN <<>>
    ELSE IF StrLen(phone) > LongIdLen THEN LastN(phone, PhoneTailLen)
    ELSE phone

\* the rules on the id without suffixes and group tail
CleanId(is_lid, phone) ==
    IF IsGroupId(phone) THEN CutToPhone(LastN(phone, GroupTailLen))
    ELSE IF is_lid THEN <<>>
    ELSE CutToPhone(phone)

clean_phone_number(jid) ==
    CleanId(Contains(jid, SuffixLid), BeforeDash(StripSuffixes(jid)))

-----------------------------------------------------------------------------
(* Python dicts: functions; insertion order is kept where the code reads it *)

EmptyDict == <<>>

Has(d, k) == k \in DOMAIN d

Get(d, k, default) == IF k \in DOMAIN d THEN d[k] ELSE default

Put(d, k, v) == [x \in (DOMAIN d) \cup {k} |-> IF x = k THEN v ELSE d[x]]

-----------------------------------------------------------------------------
(* get_cached_contacts: the contact directory and the @lid -> phone mapping *)

\* ["Voce", "You", "anta", "Yo"] ("Voce" and the Arabic word are written here in
\* ASCII; the Arabic word is one token)
SelfNamesShort == {<<"V", "o", "c", "e">>, <<"Y", "o", "u">>, <<"anta">>, <<"Y", "o">>}

NoContact ==
    [name |-> <<>>, subject |-> <<>>, profile_pic |-> <<>>, is_group |-> FALSE,
     phone_jid |-> <<>>, lid_jid |-> <<>>]

ContactIsGroup(c) == c.isGroup \/ c.type = "group" \/ Contains(c.remoteJid, SuffixGroup)

Or(a, b) == IF a # <<>> THEN a ELSE b

\* contacts_map[jid] = data, and contacts_map[clean_phone] = data when the cleaned
\* phone is not empty and differs from the JID
PutContact(map, jid, clean_phone, data) ==
    IF clean_phone # <<>> /\ clean_phone # jid
    THEN Put(Put(map, jid, data), clean_phone, data)
    ELSE Put(map, jid, data)

\* the entry of an individual contact
IndividualData(jid, name, pic) ==
    [NoContact EXCEPT !.name = name, !.profile_pic = pic,
                      !.phone_jid = IF Contains(jid, SuffixDirect) THEN jid ELSE <<>>]

IsSelfShortOrEmpty(name) == name = <<>> \/ name \in SelfNamesShort

\* first pass (individuals) over contacts[i..]
RECURSIVE IndividualsPass(_, _, _)
IndividualsPass(contacts, i, map) ==
    IF i > Len(contacts) THEN map
    ELSE
        LET c == contacts[i]
            jid == c.remoteJid
        IN  IF jid = <<>> \/ ContactIsGroup(c) \/ IsSelfShortOrEmpty(Or(c.pushName, c.name))
            THEN IndividualsPass(contacts, i + 1, map)
            ELSE IndividualsPass(contacts, i + 1,
                    PutContact(map, jid, clean_phone_number(jid),
                               IndividualData(jid, Or(c.pushName, c.name),
                                              c.profilePicUrl)))

\* the entry of a group contact
GroupData(name, subject, pic) ==
    [NoContact EXCEPT !.name = name, !.subject = Or(subject, name),
                      !.profile_pic = pic, !.is_group = TRUE]

\* second pass (groups)
RECURSIVE GroupsPass(_, _, _)
GroupsPass(contacts, i, map) ==
    IF i > Len(contacts) THEN map
    ELSE
        LET c == contacts[i]
            jid == c.remoteJid
        IN  IF jid = <<>> \/ ~ContactIsGroup(c)
               \/ IsSelfShortOrEmpty(Or(c.pushName, Or(c.subject, c.name)))
            THEN GroupsPass(contacts, i + 1, map)
            ELSE GroupsPass(contacts, i + 1,
                    Put(map, jid, GroupData(Or(c.pushName, Or(c.subject, c.name)),
                                            c.subject, c.profilePicUrl)))

\* url.split("/")[-1]
RECURSIVE AfterLastSlash(_)
AfterLastSlash(url) ==
    IF ~Contains(url, "/") THEN url
    ELSE AfterLastSlash(Tail(url))

\* pic_url.split("/")[-1].split("?")[0]
PicKey(pic_url) == SplitFirst(AfterLastSlash(pic_url), "?")

MinPicKeyLen == 10

\* a fingerprint of any length counted usable
PicKeyUsableAnyLength(pic_key) == pic_key # <<>>

PicKeyUsable(pic_key) == pic_key # <<>> /\ StrLen(pic_key) > MinPicKeyLen

\* pic_to_phone_jid[pic_key] = jid for a direct contact with a usable fingerprint
PutPic(pic_to_phone_jid, c, pic_key) ==
    IF Contains(c.remoteJid, SuffixDirect) /\ c.profilePicUrl # <<>> /\ PicKeyUsable(pic_key)
    THEN Put(pic_to_phone_jid, pic_key, c.remoteJid)
    ELSE pic_to_phone_jid

\* third pass, first loop: avatar fingerprint -> phone JID
RECURSIVE PicToPhonePass(_, _, _)
PicToPhonePass(contacts, i, pic_to_phone_jid) ==
    IF i > Len(contacts) THEN pic_to_phone_jid
    ELSE PicToPhonePass(contacts, i + 1,
                        PutPic(pic_to_phone_jid, contacts[i],
                               PicKey(contacts[i].profilePicUrl)))

\* the link of an @lid contact to the phone JID with the same fingerprint
LinkLid(acc, jid, phone_jid) ==
    [entries |-> IF Has(acc.entries, phone_jid)
                 THEN Put(acc.entries, jid,
                          [acc.entries[phone_jid] EXCEPT !.lid_jid = jid,
                                                         !.phone_jid = phone_jid])
                 ELSE acc.entries,
     lid_to_phone |-> Put(acc.lid_to_phone, jid, phone_jid)]

\* one @lid contact of the second loop
LinkIfKnown(acc, c, pic_key, pic_to_phone_jid) ==
    IF Contains(c.remoteJid, SuffixLid) /\ c.profilePicUrl # <<>> /\ PicKeyUsable(pic_key)
       /\ Get(pic_to_phone_jid, pic_key, <<>>) # <<>>
    THEN LinkLid(acc, c.remoteJid, pic_to_phone_jid[pic_key])
    ELSE acc

\* third pass, second loop: @lid contacts with a known fingerprint
RECURSIVE LidPass(_, _, _, _)
LidPass(contacts, i, pic_to_phone_jid, acc) ==
    IF i > Len(contacts) THEN acc
    ELSE LidPass(contacts, i + 1, pic_to_phone_jid,
                 LinkIfKnown(acc, contacts[i], PicKey(contacts[i].profilePicUrl),
                             pic_to_phone_jid))

\* the dict with the key "__lid_to_phone__", which the built dict always has
WithSpecial(r) ==
    [entries |-> r.entries, lid_to_phone |-> r.lid_to_phone,
     special |-> {"__lid_to_phone__"}]

\* the dict get_cached_contacts builds from the fetched contact list
BuildContactsMap(contacts) ==
    WithSpecial(LidPass(contacts, 1, PicToPhonePass(contacts, 1, EmptyDict),
                        [entries |-> GroupsPass(contacts, 1,
                                                IndividualsPass(contacts, 1, EmptyDict)),
                         lid_to_phone |-> EmptyDict]))

\* _contacts_cache["data"] as constructed: {}
NoContactsMap == [entries |-> EmptyDict, lid_to_phone |-> EmptyDict, special |-> {}]

\* truthiness of the dict
DictTruthy(d) == DOMAIN d.entries # {} \/ d.special # {}

-----------------------------------------------------------------------------
(* ISO time strings.  A string is modelled by the wall-clock reading it      *)
(* spells (`wall`, seconds) and by whether a fractional part follows the     *)
(* seconds (`frac`); strings compare as Python compares them, character by   *)
(* character: first the reading, then the shorter string first.              *)

\* datetime.fromtimestamp(int(ts)).isoformat(): local time, no fraction
FromTimestampIso(ts, tz) == [wall |-> ts + tz, frac |-> FALSE]

\* datetime.utcnow().isoformat()
UtcNowIso(t) == [wall |-> t, frac |-> TRUE]

StrLess(a, b) == a.wall < b.wall \/ (a.wall = b.wall /\ ~a.frac /\ b.frac)

\* result.sort(key=lambda x: x.get("last_message_time", ""), reverse=True):
\* stable, descending
RECURSIVE InsertRowDesc(_, _)
InsertRowDesc(sorted, x) ==
    IF sorted = <<>> THEN <<x>>
    ELSE IF StrLess(Head(sorted).last_message_time, x.last_message_time)
         THEN <<x>> \o sorted
    ELSE <<Head(sorted)>> \o InsertRowDesc(Tail(sorted), x)

\* the rows left in the order of the chat list
SortRowsKept(xs) == xs

RECURSIVE SortRowsDesc(_)
SortRowsDesc(xs) ==
    IF xs = <<>> THEN <<>>
    ELSE InsertRowDesc(SortRowsDesc(SubSeq(xs, 1, Len(xs) - 1)), xs[Len(xs)])

\* xs[a:b]
Slice(xs, a, b) ==
    LET hi == IF b < Len(xs) THEN b ELSE Len(xs)
    IN  IF a >= hi THEN <<>> ELSE SubSeq(xs, a + 1, hi)

-----------------------------------------------------------------------------
(* get_whatsapp_chats (GetChatPage) *)

\* {"Voce", "You", "anta", "Yo", "Tu", "Tu'"}
SelfNames == SelfNamesShort \cup {<<"T", "u">>, <<"T", "u'">>}

IsSelfOrEmpty(name) == name = <<>> \/ name \in SelfNames

ChatTimestamp(chat) ==
    IF chat.lastMessage # <<>> THEN chat.lastMessage[1].messageTimestamp ELSE <<0>>

\* first pass: jid_latest_timestamp, normalized JID -> (timestamp, original JID);
\* comparing a None timestamp raises TypeError
RECURSIVE LatestPass(_, _, _, _)
LatestPass(chats, i, lid_to_phone_map, acc) ==
    IF i > Len(chats) \/ acc.raised THEN acc
    ELSE
        LET chat == chats[i]
            remote_jid == chat.remoteJid
            timestamp == ChatTimestamp(chat)
            phone_jid == Get(lid_to_phone_map, remote_jid, <<>>)
            target == IF Contains(remote_jid, SuffixDirect) THEN remote_jid
                      ELSE IF Contains(remote_jid, SuffixLid) THEN phone_jid
                      ELSE <<>>
            known == Has(acc.latest, target)
            raises == known /\ (timestamp = <<>> \/ acc.latest[target].ts = <<>>)
            newer == ~known \/ timestamp[1] > acc.latest[target].ts[1]
        IN  IF target = <<>> THEN LatestPass(chats, i + 1, lid_to_phone_map, acc)
            ELSE IF raises THEN [acc EXCEPT !.raised = TRUE]
            ELSE IF newer
                 THEN LatestPass(chats, i + 1, lid_to_phone_map,
                        [acc EXCEPT !.latest = Put(acc.latest, target,
                                                   [ts |-> timestamp, jid |-> remote_jid])])
            ELSE LatestPass(chats, i + 1, lid_to_phone_map, acc)

\* a conversation counted empty whenever it has no last message
ChatIsEmptyUnread(chat) == chat.lastMessage = <<>>

ChatIsEmpty(chat) == chat.lastMessage = <<>> /\ chat.unreadCount = 0

\* the group JIDs the prefetch pass fetches (group_jids_to_fetch, as a set)
GroupJidsToFetch(chats, gnames, gpics) ==
    {chats[i].remoteJid : i \in {j \in 1..Len(chats) :
        /\ chats[j].remoteJid # <<>>
        /\ ~Contains(chats[j].remoteJid, SuffixLid)
        /\ ~ChatIsEmpty(chats[j])
        /\ Contains(chats[j].remoteJid, SuffixGroup)
        /\ (~Has(gnames, chats[j].remoteJid) \/ ~Has(gpics, chats[j].remoteJid))}}

PreviewLen == 100

PreviewImage == <<"image-preview">>
PreviewVideo == <<"video-preview">>
PreviewAudio == <<"audio-preview">>
PreviewSticker == <<"sticker-preview">>
PreviewDocument == <<"document-preview">>
PreviewReaction == <<"reaction-preview">>
PreviewUnknown == <<"message-preview">>

\* last message content and type; msg.kind is the media entry the payload holds
LastMessagePreview(chat) ==
    IF chat.lastMessage = <<>> THEN [content |-> <<>>, type |-> "text"]
    ELSE
        LET lm == chat.lastMessage[1]
            msg == lm.message
            is(k) == lm.messageType = k \/ msg.kind = k
        IN  IF msg.conversation # <<>> THEN [content |-> msg.conversation, type |-> "text"]
            ELSE IF msg.extendedText # <<>> THEN [content |-> msg.extendedText, type |-> "text"]
            ELSE IF is("imageMessage") THEN [content |-> PreviewImage, type |-> "image"]
            ELSE IF is("videoMessage") THEN [content |-> PreviewVideo, type |-> "video"]
            ELSE IF is("audioMessage") THEN [content |-> PreviewAudio, type |-> "audio"]
            ELSE IF is("stickerMessage") THEN [content |-> PreviewSticker, type |-> "sticker"]
            ELSE IF is("documentMessage")
                 THEN [content |-> PreviewDocument \o msg.fileName, type |-> "document"]
            ELSE IF is("reactionMessage")
                 THEN [content |-> PreviewReaction \o msg.reactionText, type |-> "reaction"]
            ELSE [content |-> PreviewUnknown, type |-> "text"]

\* time_str of a chat row
ChatTimeStr(chat, t, tz) ==
    LET timestamp == IF chat.lastMessage # <<>>
                     THEN chat.lastMessage[1].messageTimestamp ELSE <<>>
    IN  IF timestamp # <<>> /\ timestamp[1] # 0 THEN FromTimestampIso(timestamp[1], tz)
        ELSE IF chat.updatedAt # <<>> THEN chat.updatedAt[1]
        ELSE UtcNowIso(t)

GroupLabel == <<"G", "r", "o", "u", "p", " ">>
GroupLabelTail == 4

\* the name of a group row, the chat's subject before the cached one
GroupRowNameChatFirst(chat, contact_info, gnames, phone) ==
    Or(chat.subject, Or(Get(gnames, chat.remoteJid, <<>>),
                        Or(Or(contact_info.subject, contact_info.name),
                           GroupLabel \o LastN(phone, GroupLabelTail))))

\* the name of a group row
GroupRowName(chat, contact_info, gnames, phone) ==
    LET real_group_name == Get(gnames, chat.remoteJid, <<>>)
        contact_group_name == Or(contact_info.subject, contact_info.name)
    IN  IF real_group_name # <<>> THEN real_group_name
        ELSE Or(chat.subject, Or(contact_group_name, GroupLabel \o LastN(phone, GroupLabelTail)))

\* `name` unless it is empty, else `candidate`
OrElseNonEmpty(name, candidate) == IF name = <<>> THEN candidate ELSE name

\* `name` unless it is empty or a self-reference, else `candidate`
OrElse(name, candidate) == IF IsSelfOrEmpty(name) THEN candidate ELSE name

\* the pushName of the last message
MessagePushName(chat) ==
    IF chat.lastMessage # <<>> THEN chat.lastMessage[1].pushName ELSE <<>>

\* the last steps of the chain: the last message's pushName, then the phone
NameOrPhone(name, msg_push, phone, remote_jid) ==
    IF ~IsSelfOrEmpty(name) THEN name
    ELSE IF msg_push # <<>> /\ msg_push \notin SelfNames THEN msg_push
    ELSE IF phone # <<>> THEN phone
    ELSE <<"+">> \o BeforeAt(remote_jid)

\* the name of an individual row: the fallback chain
IndividualRowName(chat, contact_info, phone) ==
    NameOrPhone(OrElse(OrElse(OrElse(OrElse(contact_info.name, chat.notify),
                                     chat.verifiedName),
                              chat.pushName),
                       chat.name),
                MessagePushName(chat), phone, chat.remoteJid)

LongNumericName == 12

SeenIndex(seen, key) ==
    IF \E i \in 1..Len(seen) : seen[i].key = key
    THEN CHOOSE i \in 1..Len(seen) : seen[i].key = key
    ELSE 0

\* seen_normalized_jids[key] = val, keeping the insertion order of the keys
SeenPut(seen, key, val) ==
    LET i == SeenIndex(seen, key)
    IN  IF i = 0 THEN Append(seen, [key |-> key, val |-> val])
        ELSE [seen EXCEPT ![i] = [key |-> key, val |-> val]]

\* a deduplication key that ignores the identity mapping
NormalizedJidUnmapped(remote_jid, lid_to_phone_map) == remote_jid

\* the key under which a chat is deduplicated
NormalizedJid(remote_jid, lid_to_phone_map) ==
    LET phone_jid == Get(lid_to_phone_map, remote_jid, <<>>)
    IN  IF Contains(remote_jid, SuffixLid) /\ phone_jid # <<>> THEN phone_jid ELSE remote_jid

\* contacts_map.get(remote_jid) or .get(normalized_jid) or .get(phone) or {}
ChatContact(entries, remote_jid, normalized_jid, phone) ==
    IF Has(entries, remote_jid) THEN entries[remote_jid]
    ELSE IF Has(entries, normalized_jid) THEN entries[normalized_jid]
    ELSE IF Has(entries, phone) THEN entries[phone]
    ELSE NoContact

\* the name of a row
RowName(chat, contact_info, gnames, phone) ==
    IF Contains(chat.remoteJid, SuffixGroup)
    THEN GroupRowName(chat, contact_info, gnames, phone)
    ELSE IndividualRowName(chat, contact_info, phone)

\* the avatar of a row
RowPic(remote_jid, pic, gpics) ==
    IF Contains(remote_jid, SuffixGroup) /\ pic = <<>> THEN Get(gpics, remote_jid, <<>>)
    ELSE pic

\* the phone shown for a row
DisplayPhone(remote_jid, contact_info, phone) ==
    IF Contains(remote_jid, SuffixLid)
    THEN (IF contact_info.phone_jid # <<>>
          THEN clean_phone_number(contact_info.phone_jid) ELSE <<>>)
    ELSE IF Contains(remote_jid, SuffixGroup) THEN <<>>
    ELSE phone

\* the search filter: the term is in neither the name nor the phone
SearchMisses(search_lower, name, phone) ==
    ~IsSubstring(search_lower, Lower(name)) /\ ~IsSubstring(search_lower, phone)

\* the filters of the dedup loop
RowDropped(chat, name, phone, banned_users, show_banned, search) ==
    \/ Contains(chat.remoteJid, "broadcast")
    \/ ChatIsEmpty(chat)
    \/ name = <<>>
    \/ (phone \in banned_users /\ ~show_banned)
    \/ (search # <<>> /\ SearchMisses(Lower(search), name, phone))
    \/ (Contains(chat.remoteJid, SuffixLid) /\ IsDigit(name)
        /\ StrLen(name) > LongNumericName)

\* the row dict
RowDict(chat, normalized_jid, name, display_phone, preview, time_str, profile_pic, is_banned) ==
    [id |-> chat.remoteJid,
     remote_jid |-> chat.remoteJid,
     phone |-> Or(display_phone, name),
     name |-> name,
     last_message |-> FirstN(preview.content, PreviewLen),
     last_message_type |-> preview.type,
     last_message_time |-> time_str,
     unread_count |-> chat.unreadCount,
     is_group |-> Contains(chat.remoteJid, SuffixGroup),
     profile_pic |-> profile_pic,
     is_banned |-> is_banned,
     platform |-> "whatsapp",
     lid_jid |-> IF Contains(chat.remoteJid, SuffixLid) THEN chat.remoteJid ELSE <<>>,
     phone_jid |-> IF normalized_jid # chat.remoteJid THEN normalized_jid ELSE <<>>]

\* the row of a chat whose name is known
NamedRow(chat, normalized_jid, contact_info, phone, name, banned_users, show_banned, search, gpics, t, tz) ==
    IF RowDropped(chat, name, phone, banned_users, show_banned, search) THEN <<>>
    ELSE <<RowDict(chat, normalized_jid, name,
                   DisplayPhone(chat.remoteJid, contact_info, phone),
                   LastMessagePreview(chat), ChatTimeStr(chat, t, tz),
                   RowPic(chat.remoteJid, Or(contact_info.profile_pic, chat.profilePicUrl),
                          gpics),
                   phone \in banned_users)>>

\* the row of a chat whose contact entry is known
ContactRow(chat, normalized_jid, contact_info, phone, banned_users, show_banned, search, gnames, gpics, t, tz) ==
    NamedRow(chat, normalized_jid, contact_info, phone,
             RowName(chat, contact_info, gnames, phone),
             banned_users, show_banned, search, gpics, t, tz)

\* the row of a chat whose phone is known
PhoneRow(chat, normalized_jid, phone, contacts_map, banned_users, show_banned, search, gnames, gpics, t, tz) ==
    ContactRow(chat, normalized_jid,
               ChatContact(contacts_map.entries, chat.remoteJid, normalized_jid, phone),
               phone, banned_users, show_banned, search, gnames, gpics, t, tz)

\* the row of one raw chat, or <<>> when a filter drops the chat
ChatRow(chat, normalized_jid, contacts_map, banned_users, show_banned, search, gnames, gpics, t, tz) ==
    PhoneRow(chat, normalized_jid, clean_phone_number(chat.remoteJid), contacts_map,
             banned_users, show_banned, search, gnames, gpics, t, tz)

\* whether the dedup loop takes up a mapped @lid chat: it does unless another
\* chat of the same contact holds the latest message
LidChatIsLatest(remote_jid, lid_to_phone_map, latest) ==
    LET phone_jid == Get(lid_to_phone_map, remote_jid, <<>>)
    IN  ~(Contains(remote_jid, SuffixLid) /\ phone_jid # <<>> /\ Has(latest, phone_jid))
        \/ latest[phone_jid].jid = remote_jid

\* one chat of the dedup loop, its deduplication key known
DedupChat(seen, chat, normalized_jid, latest, contacts_map, banned_users, show_banned, search, gnames, gpics, t, tz) ==
    IF \/ chat.remoteJid = <<>>
       \/ ~LidChatIsLatest(chat.remoteJid, contacts_map.lid_to_phone, latest)
       \/ SeenIndex(seen, normalized_jid) # 0
    THEN seen
    ELSE SeenPut(seen, normalized_jid,
                 ChatRow(chat, normalized_jid, contacts_map, banned_users, show_banned,
                         search, gnames, gpics, t, tz))

\* the dedup loop over chats[i..]: seen_normalized_jids, in insertion order, each
\* key holding <<>> (the placeholder True) or <<row>>
RECURSIVE DedupPass(_, _, _, _, _, _, _, _, _, _, _, _)
DedupPass(chats, i, seen, latest, contacts_map, banned_users, show_banned, search, gnames, gpics, t, tz) ==
    IF i > Len(chats) THEN seen
    ELSE DedupPass(chats, i + 1,
                   DedupChat(seen, chats[i],
                             NormalizedJid(chats[i].remoteJid, contacts_map.lid_to_phone),
                             latest, contacts_map, banned_users, show_banned, search,
                             gnames, gpics, t, tz),
                   latest, contacts_map, banned_users, show_banned, search,
                   gnames, gpics, t, tz)

\* [v for v in seen_normalized_jids.values() if isinstance(v, dict)]
RECURSIVE RowsOf(_)
RowsOf(seen) ==
    IF seen = <<>> THEN <<>>
    ELSE Head(seen).val \o RowsOf(Tail(seen))

\* a page cut as result[offset:limit]
PageOfRowsUpToLimit(result, offset, limit) ==
    [raised |-> FALSE, items |-> Slice(result, offset, limit), total |-> Len(result)]

\* the rows sorted newest first: the total and the slice [offset, offset + limit)
PageOfRows(result, offset, limit) ==
    [raised |-> FALSE, items |-> Slice(result, offset, offset + limit),
     total |-> Len(result)]

\* the response, the first pass done
RowsPage(chats, p1, contacts_map, banned_users, show_banned, search, gnames, gpics, offset, limit, t, tz) ==
    IF p1.raised THEN [raised |-> TRUE, items |-> <<>>, total |-> 0]
    ELSE PageOfRows(SortRowsDesc(RowsOf(DedupPass(chats, 1, <<>>, p1.latest, contacts_map,
                                                  banned_users, show_banned, search,
                                                  gnames, gpics, t, tz))),
                    offset, limit)

\* the response of get_whatsapp_chats once the contact directory, the chat list
\* and the group caches (after the prefetch) are at hand
ChatPage(chats, contacts_map, banned_users, show_banned, search, gnames, gpics, offset, limit, t, tz) ==
    RowsPage(chats,
             LatestPass(chats, 1, contacts_map.lid_to_phone,
                        [latest |-> EmptyDict, raised |-> FALSE]),
             contacts_map, banned_users, show_banned, search, gnames, gpics,
             offset, limit, t, tz)

-----------------------------------------------------------------------------
(* EvolutionClient._request and the EvolutionService calls built on it.     *)
(* `mode` is what the gateway does with the request: "ok" answers 200,      *)
(* "http_error" answers an error status, "timeout" and "client_error" fail  *)
(* every attempt (asyncio.TimeoutError, aiohttp.ClientError), "exception"   *)
(* fails with any other exception.                                          *)

Modes == {"ok", "http_error", "timeout", "client_error", "exception"}

max_retries == 2

\* _request without its handler for asyncio.TimeoutError: a timeout escapes
RequestTimeoutEscapes(mode, payload) ==
    CASE mode = "ok" ->
            [success |-> TRUE, data |-> payload, raised |-> FALSE, attempts |-> 1]
      [] mode = "http_error" ->
            [success |-> FALSE, data |-> <<>>, raised |-> FALSE, attempts |-> 1]
      [] mode = "timeout" ->
            [success |-> FALSE, data |-> <<>>, raised |-> TRUE, attempts |-> 1]
      [] mode = "client_error" ->
            [success |-> FALSE, data |-> <<>>, raised |-> FALSE, attempts |-> max_retries + 1]
      [] OTHER ->
            [success |-> FALSE, data |-> <<>>, raised |-> FALSE, attempts |-> 1]

\* _request: {"success", "data"} or {"success": False, "error"}; every exception is
\* caught, so it never raises; `attempts` counts the HTTP attempts made
Request(mode, payload) ==
    CASE mode = "ok" ->
            [success |-> TRUE, data |-> payload, raised |-> FALSE, attempts |-> 1]
      [] mode = "http_error" ->
            [success |-> FALSE, data |-> <<>>, raised |-> FALSE, attempts |-> 1]
      [] mode \in {"timeout", "client_error"} ->
            [success |-> FALSE, data |-> <<>>, raised |-> FALSE, attempts |-> max_retries + 1]
      [] OTHER ->
            [success |-> FALSE, data |-> <<>>, raised |-> FALSE, attempts |-> 1]

\* one request to the gateway: the endpoint and what it is about
Call(kind, arg) == [call |-> kind, arg |-> arg]

\* fx = [failing |-> the calls that fail in this request, mode |-> how they fail]
ModeOf(fx, kind, arg) == IF Call(kind, arg) \in fx.failing THEN fx.mode ELSE "ok"

ContactsLimit == 1000

\* EvolutionService.get_contacts(limit=1000)
get_contacts(fx, g) ==
    LET result == Request(ModeOf(fx, "findContacts", <<>>), g.contacts)
    IN  [raised |-> result.raised,
         value |-> IF result.success /\ result.data # <<>>
                   THEN FirstN(result.data, ContactsLimit) ELSE <<>>]

\* the directory served up to and including the age of its ttl
ContactsFreshInclusive(cache, t) ==
    DictTruthy(cache.data) /\ (t - cache.timestamp) <= cache.ttl

\* the stored directory is served: it is not empty and younger than its ttl
ContactsFresh(cache, t) == DictTruthy(cache.data) /\ (t - cache.timestamp) < cache.ttl

\* the fetched directory merged into the stored one
StoredContactsMerged(cache, t, contacts_map) ==
    [cache |-> [cache EXCEPT !.data = [entries |-> contacts_map.entries @@ cache.data.entries, lid_to_phone |-> contacts_map.lid_to_phone @@ cache.data.lid_to_phone, special |-> contacts_map.special \cup cache.data.special], !.timestamp = t],
     map |-> contacts_map,
     calls |-> <<Call("findContacts", <<>>)>>, raised |-> FALSE]

\* the directory built from the fetched list, stored with the time of the read
StoredContacts(cache, t, contacts_map) ==
    [cache |-> [cache EXCEPT !.data = contacts_map, !.timestamp = t],
     map |-> contacts_map,
     calls |-> <<Call("findContacts", <<>>)>>, raised |-> FALSE]

\* the miss: fetch the contacts and build the directory
StoreContacts(cache, t, contacts) ==
    IF contacts.raised
    THEN [cache |-> cache, map |-> NoContactsMap,
          calls |-> <<Call("findContacts", <<>>)>>, raised |-> TRUE]
    ELSE StoredContacts(cache, t, BuildContactsMap(contacts.value))

\* get_cached_contacts: [cache, map, calls, raised]
get_cached_contacts(cache, t, fx, g) ==
    IF ContactsFresh(cache, t)
    THEN [cache |-> cache, map |-> cache.data, calls |-> <<>>, raised |-> FALSE]
    ELSE StoreContacts(cache, t, get_contacts(fx, g))

\* the chat entry get_chats builds from a message record
ChatFromMessage(msg) ==
    [remoteJid |-> msg.key.remoteJid, name |-> msg.pushName, unreadCount |-> 0,
     lastMessage |-> <<[message |-> msg.message, messageType |-> "",
                        messageTimestamp |-> msg.messageTimestamp,
                        pushName |-> msg.pushName]>>,
     profilePicUrl |-> <<>>, updatedAt |-> msg.updatedAt,
     notify |-> <<>>, verifiedName |-> <<>>, pushName |-> <<>>, subject |-> <<>>]

\* chats_map: the first message of every remoteJid, in the order met
RECURSIVE ChatsFromMessages(_, _, _)
ChatsFromMessages(records, i, acc) ==
    IF i > Len(records) THEN acc
    ELSE
        LET remote_jid == records[i].key.remoteJid
        IN  IF remote_jid = <<>> \/ \E k \in 1..Len(acc) : acc[k].remoteJid = remote_jid
            THEN ChatsFromMessages(records, i + 1, acc)
            ELSE ChatsFromMessages(records, i + 1, Append(acc, ChatFromMessage(records[i])))

RECURSIVE InsertChatDesc(_, _)
InsertChatDesc(sorted, x) ==
    IF sorted = <<>> THEN <<x>>
    ELSE IF Head(sorted).lastMessage[1].messageTimestamp[1] < x.lastMessage[1].messageTimestamp[1]
         THEN <<x>> \o sorted
    ELSE <<Head(sorted)>> \o InsertChatDesc(Tail(sorted), x)

\* chats.sort(key=messageTimestamp, reverse=True)
RECURSIVE SortChatsDesc(_)
SortChatsDesc(xs) ==
    IF xs = <<>> THEN <<>>
    ELSE InsertChatDesc(SortChatsDesc(SubSeq(xs, 1, Len(xs) - 1)), xs[Len(xs)])

FindChats == <<Call("findChats", <<>>)>>
FindRecent == <<Call("findMessagesAll", <<>>)>>

\* the chats built from the recent messages, newest first.  Sorting raises
\* TypeError when a timestamp is None and there is something to compare it with.
BuiltChats(built, limit) ==
    LET none_ts == \E k \in 1..Len(built) :
                      built[k].lastMessage[1].messageTimestamp = <<>>
        calls == FindChats \o FindRecent \o FindRecent
    IN  IF Len(built) > 1 /\ none_ts THEN [raised |-> TRUE, value |-> <<>>, calls |-> calls]
        ELSE IF none_ts THEN [raised |-> FALSE, value |-> FirstN(built, limit),
                              calls |-> calls]
        ELSE [raised |-> FALSE, value |-> FirstN(SortChatsDesc(built), limit),
              calls |-> calls]

\* the fallback: the chat list built from the recent messages (the gateway holds
\* less than one page of them, so the second page comes back empty)
ChatsFromRecent(page1, limit) ==
    IF page1.raised THEN [raised |-> TRUE, value |-> <<>>, calls |-> FindChats \o FindRecent]
    ELSE IF ~page1.success \/ page1.data = <<>>
         THEN [raised |-> FALSE, value |-> <<>>, calls |-> FindChats \o FindRecent]
    ELSE BuiltChats(ChatsFromMessages(page1.data, 1, <<>>), limit)

\* the answer of findChats, or the fallback when it fails or is empty
ChatsOrFallback(result, fx, g, limit) ==
    IF result.raised THEN [raised |-> TRUE, value |-> <<>>, calls |-> FindChats]
    ELSE IF result.success /\ result.data # <<>>
         THEN [raised |-> FALSE, value |-> result.data, calls |-> FindChats]
    ELSE ChatsFromRecent(Request(ModeOf(fx, "findMessagesAll", <<>>), g.recent), limit)

\* EvolutionService.get_chats: [raised, value, calls]
get_chats(fx, g, limit) ==
    ChatsOrFallback(Request(ModeOf(fx, "findChats", <<>>), g.chats), fx, g, limit)

\* get_group_name for one group: the subject the call stores, <<>> when it stores
\* none (a failed fetch, or a group without subject, is not cached)
FetchedGroupSubject(jid, fx, g) ==
    LET result == Request(ModeOf(fx, "findGroupInfos", jid), Get(g.groupSubject, jid, <<>>))
    IN  IF ~result.raised /\ result.success /\ Has(g.groupSubject, jid)
        THEN result.data ELSE <<>>

\* get_group_name over the groups `jids`: _group_names_cache["data"] afterwards
get_group_names(data, jids, fx, g) ==
    LET stored == {j \in jids : ~Has(data, j) /\ FetchedGroupSubject(j, fx, g) # <<>>}
    IN  [j \in (DOMAIN data) \cup stored |->
            IF Has(data, j) THEN data[j] ELSE FetchedGroupSubject(j, fx, g)]

\* get_group_profile_pic for one group: the URL the call stores, None (<<>>) after
\* a failure
FetchedGroupPic(jid, fx, g) ==
    LET result == Request(ModeOf(fx, "fetchProfilePictureUrl", jid),
                          Get(g.groupPicUrl, jid, <<>>))
    IN  IF ~result.raised /\ result.success THEN result.data ELSE <<>>

\* get_group_profile_pic over the groups `jids`: _group_pics_cache["data"] afterwards
get_group_profile_pics(data, jids, fx, g) ==
    [j \in (DOMAIN data) \cup jids |->
        IF Has(data, j) THEN data[j] ELSE FetchedGroupPic(j, fx, g)]

\* the gateway calls of a prefetch over `jids`, names first (the order among the
\* groups is the order of a Python set; here the calls are kept as a set)
PrefetchCalls(jids, gnames, gpics) ==
    {Call("findGroupInfos", j) : j \in {x \in jids : ~Has(gnames, x)}}
    \cup {Call("fetchProfilePictureUrl", j) : j \in {x \in jids : ~Has(gpics, x)}}

-----------------------------------------------------------------------------
(* get_whatsapp_chat_messages (GetMessagePage): fetch, merge, deduplicate *)

\* the gateway's page `page` of `limit` records of a record list
PageOf(records, limit, page) == Slice(records, (page - 1) * limit, page * limit)

NoMessages == [records |-> <<>>, total |-> 0]

\* what get_messages returns for the answer of the gateway
MessagesOf(result, held) ==
    [raised |-> result.raised,
     value |-> IF result.success /\ held THEN result.data ELSE NoMessages]

\* the page of the records the gateway holds
HeldPage(held, limit, page) ==
    [records |-> PageOf(held.records, limit, page), total |-> held.total]

\* EvolutionService.get_messages(remote_jid, limit, page): {"records", "total"}
get_messages(kind, remote_jid, limit, page, fx, g) ==
    MessagesOf(Request(ModeOf(fx, kind, remote_jid),
                       HeldPage(Get(g.messages, remote_jid, NoMessages), limit, page)),
               Has(g.messages, remote_jid))

\* the owner lookup of an @lid chat: ownerJid without its suffix, <<>> when unknown
OwnerJid(fx, g) ==
    LET result == Request(ModeOf(fx, "fetchInstances", <<>>), g.ownerJid)
    IN  IF ~result.raised /\ result.success /\ result.data # <<>>
        THEN Remove(result.data, SuffixDirect) ELSE <<>>

\* the linked @s.whatsapp.net JID of an @lid chat, <<>> when there is none
AlternateJid(remote_jid, contacts_map) ==
    LET contact_info == Get(contacts_map.entries, remote_jid, NoContact)
    IN  IF contact_info.phone_jid # <<>> THEN contact_info.phone_jid
        ELSE Get(contacts_map.lid_to_phone, remote_jid, <<>>)

\* x.get("messageTimestamp", 0) of a record
SortTimestamp(msg) == msg.messageTimestamp

RECURSIVE InsertMessageDesc(_, _)
InsertMessageDesc(sorted, x) ==
    IF sorted = <<>> THEN <<x>>
    ELSE IF SortTimestamp(Head(sorted))[1] < SortTimestamp(x)[1] THEN <<x>> \o sorted
    ELSE <<Head(sorted)>> \o InsertMessageDesc(Tail(sorted), x)

\* messages.sort(key=messageTimestamp, reverse=True)
RECURSIVE SortMessagesDesc(_)
SortMessagesDesc(xs) ==
    IF xs = <<>> THEN <<>>
    ELSE InsertMessageDesc(SortMessagesDesc(SubSeq(xs, 1, Len(xs) - 1)), xs[Len(xs)])

Max(a, b) == IF a > b THEN a ELSE b

\* the records and total after the merge with the alternate JID's page: extend,
\* take the larger total, sort newest first, keep `limit` records.  A None
\* timestamp makes the sort raise inside the try block: the records stay
\* extended and uncut.
MergeAlternate(primary, alt, limit) ==
    LET merged == primary.records \o alt.records
        total == Max(primary.total, alt.total)
        none_ts == \E k \in 1..Len(merged) : SortTimestamp(merged[k]) = <<>>
    IN  IF Len(merged) > 1 /\ none_ts THEN [records |-> merged, total |-> total]
        ELSE IF none_ts THEN [records |-> FirstN(merged, limit), total |-> total]
        ELSE [records |-> FirstN(SortMessagesDesc(merged), limit), total |-> total]

\* the merged page
MergedPage(m, calls) ==
    [records |-> m.records, total |-> m.total, calls |-> calls, raised |-> FALSE]

\* the records and total once both pages are fetched; a failed alternate fetch
\* leaves the primary page
FetchedPages(primary, alt, use_alt, limit, c1, c2) ==
    IF primary.raised
    THEN [records |-> <<>>, total |-> 0, calls |-> c1, raised |-> TRUE]
    ELSE IF use_alt /\ ~alt.raised
         THEN MergedPage(MergeAlternate(primary.value, alt.value, limit), c1 \o c2)
    ELSE [records |-> primary.value.records, total |-> primary.value.total,
          calls |-> IF use_alt THEN c1 \o c2 ELSE c1, raised |-> FALSE]

\* the fetches of a chat whose alternate JID is known (<<>> for none)
FetchBoth(remote_jid, limit, page, alternate_jid, fx, g) ==
    FetchedPages(get_messages("findMessages", remote_jid, limit, page, fx, g),
                 get_messages("findMessages", alternate_jid, limit, page, fx, g),
                 Contains(remote_jid, SuffixLid) /\ alternate_jid # <<>> /\ page = 1,
                 limit,
                 <<Call("findMessages", remote_jid)>>,
                 <<Call("findMessages", alternate_jid)>>)

\* the records and total the message loop runs over: [records, total, calls, raised]
FetchMessages(remote_jid, limit, page, contacts_map, fx, g) ==
    FetchBoth(remote_jid, limit, page,
              IF Contains(remote_jid, SuffixLid)
              THEN AlternateJid(remote_jid, contacts_map) ELSE <<>>,
              fx, g)

\* content of a message: text, else the caption of an image or a video
MessageText(message_data) ==
    Or(message_data.conversation, Or(message_data.extendedText, message_data.caption))

\* type and content after the media classification
MessageTypeOf(message_data) ==
    CASE message_data.kind = "imageMessage" -> "image"
      [] message_data.kind = "videoMessage" -> "video"
      [] message_data.kind = "audioMessage" -> IF message_data.ptt THEN "voice" ELSE "audio"
      [] message_data.kind = "documentMessage" -> "document"
      [] message_data.kind = "stickerMessage" -> "sticker"
      [] message_data.kind = "reactionMessage" -> "reaction"
      [] OTHER -> "text"

\* the direction of a message; for an @lid chat with a known owner the ids that
\* start with "3A" or "3EB" count as sent by the owner
OwnDevicePrefixes == {<<"3", "A">>, <<"3", "E", "B">>}

\* the direction with the id rule applied to every kind of chat
FromMeAnyChat(msg, is_lid, owner_jid) ==
    \/ msg.key.fromMe
    \/ \E pre \in OwnDevicePrefixes : StartsWith(msg.key.id, pre)

FromMe(msg, is_lid, owner_jid) ==
    \/ msg.key.fromMe
    \/ /\ is_lid
       /\ owner_jid # <<>>
       /\ \E pre \in OwnDevicePrefixes : StartsWith(msg.key.id, pre)

\* time_str of a message
MessageTimeStr(msg, t, tz) ==
    IF msg.messageTimestamp # <<>> /\ msg.messageTimestamp[1] # 0
    THEN FromTimestampIso(msg.messageTimestamp[1], tz)
    ELSE UtcNowIso(t)

\* get_group_participants: the roster, [] when the call fails (the handler calls
\* it inside a try block)
get_group_participants(remote_jid, fx, g) ==
    LET result == Request(ModeOf(fx, "participants", remote_jid),
                          Get(g.participants, remote_jid, <<>>))
    IN  IF ~result.raised /\ result.success THEN result.data ELSE <<>>

\* "musharik" stands for the Arabic word for participant, one token
ParticipantLabel == <<"musharik">>

MentionMinDigits == 10
MentionMaxDigits == 15
NumericNameLen == 10
LongSenderName == 15

NoRoster == [phones |-> EmptyDict, pics |-> EmptyDict, names |-> EmptyDict]

\* map[clean_phone] = value and map[phone_number] = value, when there is a value
PutBoth(map, clean_phone, phone_number, value) ==
    IF value = <<>> THEN map ELSE Put(Put(map, clean_phone, value), phone_number, value)

\* the maps after one roster entry: group_participants_map, participants_pics_map,
\* participants_names_map
RosterEntry(acc, p) ==
    IF p.id = <<>> \/ p.phoneNumber = <<>> THEN acc
    ELSE [phones |-> Put(acc.phones, p.id, p.phoneNumber),
          pics |-> PutBoth(acc.pics, Remove(p.phoneNumber, SuffixDirect), p.phoneNumber,
                           p.imgUrl),
          names |-> PutBoth(acc.names, Remove(p.phoneNumber, SuffixDirect), p.phoneNumber,
                            p.name)]

RECURSIVE RosterMaps(_, _, _)
RosterMaps(participants, i, acc) ==
    IF i > Len(participants) THEN acc
    ELSE RosterMaps(participants, i + 1, RosterEntry(acc, participants[i]))

\* lid_to_phone_map[participant] = participantAlt for an @lid participant with a
\* direct alternate
AltEntry(map, key) ==
    IF /\ key.participant # <<>> /\ Contains(key.participant, SuffixLid)
       /\ key.participantAlt # <<>> /\ Contains(key.participantAlt, SuffixDirect)
    THEN Put(map, key.participant, key.participantAlt)
    ELSE map

\* first pass over the messages
RECURSIVE AltPass(_, _, _)
AltPass(messages, i, map) ==
    IF i > Len(messages) THEN map
    ELSE AltPass(messages, i + 1, AltEntry(map, messages[i].key))

\* d.update(e)
Update(d, e) == [k \in (DOMAIN d) \cup (DOMAIN e) |-> IF k \in DOMAIN e THEN e[k] ELSE d[k]]

\* what the message loop reads besides the message: the directory, the mapping of
\* the first pass updated with the roster, the roster's avatars and names
LoopContext(messages, contacts_map, roster) ==
    [contacts_map |-> contacts_map,
     lid_to_phone_map |-> Update(AltPass(messages, 1, EmptyDict), roster.phones),
     pics |-> roster.pics,
     names |-> roster.names]

\* the roster maps of a group, empty for another chat or a failed call
RosterOf(remote_jid, fx, g) ==
    IF Contains(remote_jid, SuffixGroup)
    THEN RosterMaps(get_group_participants(remote_jid, fx, g), 1, NoRoster)
    ELSE NoRoster

RECURSIVE DigitRunLen(_, _)
\* the length of the run of digits of s that starts at position i
DigitRunLen(s, i) ==
    IF i > Len(s) \/ s[i] \notin Digits THEN 0 ELSE 1 + DigitRunLen(s, i + 1)

RECURSIVE FindMentions(_, _)
\* re.findall(r'@(\d{10,})', content), from position i on
FindMentions(content, i) ==
    IF i > Len(content) THEN <<>>
    ELSE IF content[i] = "@" /\ DigitRunLen(content, i + 1) >= MentionMinDigits
         THEN <<SubSeq(content, i + 1, i + DigitRunLen(content, i + 1))>>
              \o FindMentions(content, i + 1 + DigitRunLen(content, i + 1))
    ELSE FindMentions(content, i + 1)

RECURSIVE Replace(_, _, _)
\* s.replace(old, new): every occurrence of `old`, left to right
Replace(s, old, new) ==
    IF Len(s) < Len(old) THEN s
    ELSE IF SubSeq(s, 1, Len(old)) = old
         THEN new \o Replace(SubSeq(s, Len(old) + 1, Len(s)), old, new)
    ELSE <<Head(s)>> \o Replace(Tail(s), old, new)

\* the name of a mapped mention: the contact's name unless it is empty or a number
MentionName(real_phone, name) ==
    IF name # <<>> /\ ~IsDigit(name) THEN name ELSE real_phone

\* the text of a mapped mention
MappedMention(real_phone, contacts_map) ==
    <<"@">> \o MentionName(real_phone, Get(contacts_map, real_phone, NoContact).name)

\* one step of the loop over the matches
RewriteMention(content, match, ctx) ==
    IF Len(match) > MentionMaxDigits
    THEN Replace(content, <<"@">> \o match, <<"@">> \o ParticipantLabel)
    ELSE IF Has(ctx.lid_to_phone_map, match \o <<SuffixLid>>)
         THEN Replace(content, <<"@">> \o match,
                      MappedMention(Remove(ctx.lid_to_phone_map[match \o <<SuffixLid>>],
                                           SuffixDirect),
                                    ctx.contacts_map))
    ELSE content

RECURSIVE RewriteMentions(_, _, _, _)
RewriteMentions(content, matches, i, ctx) ==
    IF i > Len(matches) THEN content
    ELSE RewriteMentions(RewriteMention(content, matches[i], ctx), matches, i + 1, ctx)

\* the text once its mentions are cleaned up
MentionsRewritten(content, ctx) ==
    IF content = <<>> THEN content
    ELSE RewriteMentions(content, FindMentions(content, 1), 1, ctx)

\* name.isdigit() and len(name) > 10
IsLidName(name) == IsDigit(name) /\ StrLen(name) > NumericNameLen

\* not sender_name, a self-reference, or a long number
Unusable(name) == name = <<>> \/ name \in SelfNamesShort \/ IsLidName(name)

\* the mapped phone of the participant, else participantAlt of the key
SenderAltMapped(key, lid_to_phone_map) ==
    IF key.participant # <<>> /\ Has(lid_to_phone_map, key.participant)
    THEN lid_to_phone_map[key.participant]
    ELSE key.participantAlt

\* participantAlt of the key, else the mapped phone of the participant
SenderAlt(key, lid_to_phone_map) ==
    IF key.participantAlt = <<>> /\ key.participant # <<>>
       /\ Has(lid_to_phone_map, key.participant)
    THEN lid_to_phone_map[key.participant]
    ELSE key.participantAlt

\* the participant: the alternate when it is a direct id, else the @lid id
SenderParticipant(participant_lid, participant_alt) ==
    IF participant_alt # <<>> /\ Contains(participant_alt, SuffixDirect) THEN participant_alt
    ELSE Or(participant_lid, participant_alt)

\* contacts_map.get(jid) or contacts_map.get(clean_phone_number(jid)) or {}
ContactOf(contacts_map, jid) ==
    IF Has(contacts_map, jid) THEN contacts_map[jid]
    ELSE Get(contacts_map, clean_phone_number(jid), NoContact)

\* the contact of the sender: by the alternate, then by the participant
SenderContact(contacts_map, participant_alt, participant) ==
    IF participant_alt # <<>> /\ ContactOf(contacts_map, participant_alt) # NoContact
    THEN ContactOf(contacts_map, participant_alt)
    ELSE ContactOf(contacts_map, participant)

\* name and avatar after the contact lookup, which is made for an unusable pushName
ContactStage(push_name, contact_info) ==
    IF Unusable(push_name)
    THEN [name |-> IF contact_info.name # <<>> /\ ~IsLidName(contact_info.name)
                   THEN contact_info.name ELSE push_name,
          pic |-> contact_info.profile_pic]
    ELSE [name |-> push_name, pic |-> <<>>]

\* map.get(clean_phone) or map.get(participant_alt) or map.get(participant)
RosterGet(map, clean_phone, participant_alt, participant) ==
    Or(Get(map, clean_phone, <<>>),
       Or(Get(map, participant_alt, <<>>), Get(map, participant, <<>>)))

\* the roster's name for an unusable name, when the roster has one
RosterStage(name, participant_name) ==
    IF Unusable(name) THEN Or(participant_name, name) ELSE name

\* pushName unless it is empty or a long number, else the label
PushOrLabel(push_name) ==
    IF push_name # <<>> /\ ~IsLidName(push_name) THEN push_name ELSE ParticipantLabel

\* the phone for a name that is still unusable
PhoneStage(name, push_name, participant_alt, participant) ==
    IF ~Unusable(name) THEN name
    ELSE IF participant_alt # <<>> /\ Contains(participant_alt, SuffixDirect)
         THEN Or(clean_phone_number(participant_alt), PushOrLabel(push_name))
    ELSE IF Contains(participant, SuffixDirect)
         THEN Or(clean_phone_number(participant), PushOrLabel(push_name))
    ELSE PushOrLabel(push_name)

\* final safety check
SafeName(name) ==
    IF name # <<>> /\ (Contains(name, SuffixLid)
                       \/ (IsDigit(Remove(name, "@")) /\ StrLen(name) > LongSenderName))
    THEN ParticipantLabel ELSE name

\* the sender once the contact lookup is done
SenderStaged(stage, push_name, participant_alt, participant, clean_phone, ctx) ==
    [sender_name |-> SafeName(PhoneStage(RosterStage(stage.name,
                                                     RosterGet(ctx.names, clean_phone,
                                                               participant_alt, participant)),
                                         push_name, participant_alt, participant)),
     sender_jid |-> participant,
     sender_pic |-> Or(stage.pic,
                       RosterGet(ctx.pics, clean_phone, participant_alt, participant))]

NoSender(push_name) == [sender_name |-> push_name, sender_jid |-> <<>>, sender_pic |-> <<>>]

\* the sender of a group message whose participant is known
ParticipantSender(push_name, participant_alt, participant, ctx) ==
    IF participant = <<>> THEN NoSender(push_name)
    ELSE SenderStaged(ContactStage(push_name,
                                   SenderContact(ctx.contacts_map, participant_alt,
                                                 participant)),
                      push_name, participant_alt, participant,
                      clean_phone_number(Or(participant_alt, participant)), ctx)

\* the sender of a message: resolved for the messages others sent to a group
Sender(msg, from_me, is_group, ctx) ==
    IF is_group /\ ~from_me
    THEN ParticipantSender(msg.pushName, SenderAlt(msg.key, ctx.lid_to_phone_map),
                           SenderParticipant(msg.key.participant,
                                             SenderAlt(msg.key, ctx.lid_to_phone_map)),
                           ctx)
    ELSE NoSender(msg.pushName)

MessageContent(message_data, ctx) ==
    CASE message_data.kind \in {"audioMessage", "stickerMessage"} -> <<>>
      [] message_data.kind = "documentMessage" -> message_data.fileName
      [] message_data.kind = "reactionMessage" -> message_data.reactionText
      [] OTHER -> MentionsRewritten(MessageText(message_data), ctx)

\* the item dict
ItemDict(msg, remote_jid, from_me, t, tz, sender, ctx) ==
    [id |-> msg.key.id,
     content |-> MessageContent(msg.message, ctx),
     from_me |-> from_me,
     timestamp |-> MessageTimeStr(msg, t, tz),
     sender_name |-> sender.sender_name,
     sender_jid |-> sender.sender_jid,
     sender_pic |-> sender.sender_pic,
     type |-> MessageTypeOf(msg.message),
     remote_jid |-> Or(msg.key.remoteJid, remote_jid)]

\* the item of a message whose direction is known
ItemFrom(msg, remote_jid, from_me, t, tz, ctx) ==
    ItemDict(msg, remote_jid, from_me, t, tz,
             Sender(msg, from_me, Contains(remote_jid, SuffixGroup), ctx), ctx)

MessageItem(msg, remote_jid, is_lid, owner_jid, t, tz, ctx) ==
    ItemFrom(msg, remote_jid, FromMe(msg, is_lid, owner_jid), t, tz, ctx)

\* the message loop keeping the last record of every id
RECURSIVE DedupMessagesLast(_, _, _, _, _, _, _, _, _, _)
DedupMessagesLast(messages, i, seen_ids, result, remote_jid, is_lid, owner_jid, t, tz, ctx) ==
    IF i > Len(messages) THEN result
    ELSE IF \E k \in (i + 1)..Len(messages) : messages[k].key.id = messages[i].key.id
         THEN DedupMessagesLast(messages, i + 1, seen_ids, result, remote_jid, is_lid,
                                owner_jid, t, tz, ctx)
    ELSE DedupMessagesLast(messages, i + 1, seen_ids,
                           Append(result, MessageItem(messages[i], remote_jid, is_lid,
                                                      owner_jid, t, tz, ctx)),
                           remote_jid, is_lid, owner_jid, t, tz, ctx)

\* the message loop: the first record of every id, in the order of `messages`
RECURSIVE DedupMessages(_, _, _, _, _, _, _, _, _, _)
DedupMessages(messages, i, seen_ids, result, remote_jid, is_lid, owner_jid, t, tz, ctx) ==
    IF i > Len(messages) THEN result
    ELSE IF messages[i].key.id \in seen_ids
         THEN DedupMessages(messages, i + 1, seen_ids, result, remote_jid, is_lid,
                            owner_jid, t, tz, ctx)
    ELSE DedupMessages(messages, i + 1, seen_ids \cup {messages[i].key.id},
                       Append(result, MessageItem(messages[i], remote_jid, is_lid,
                                                  owner_jid, t, tz, ctx)),
                       remote_jid, is_lid, owner_jid, t, tz, ctx)

RECURSIVE InsertItemAsc(_, _)
InsertItemAsc(sorted, x) ==
    IF sorted = <<>> THEN <<x>>
    ELSE IF ~StrLess(Head(sorted).timestamp, x.timestamp) THEN <<x>> \o sorted
    ELSE <<Head(sorted)>> \o InsertItemAsc(Tail(sorted), x)

\* the items left in the order of the message loop
SortItemsKept(xs) == xs

\* result.sort(key=lambda x: x.get("timestamp", "")): stable, ascending
RECURSIVE SortItemsAsc(_)
SortItemsAsc(xs) ==
    IF xs = <<>> THEN <<>>
    ELSE LET rest == SortItemsAsc(Tail(xs))
         IN  InsertItemAsc(rest, Head(xs))

\* the items of a message page
MessageItems(messages, remote_jid, owner_jid, t, tz, ctx) ==
    SortItemsAsc(DedupMessages(messages, 1, {}, <<>>, remote_jid,
                               Contains(remote_jid, SuffixLid), owner_jid, t, tz, ctx))

EmptyProfile == [name |-> <<>>, picture |-> <<>>, status |-> <<>>]

\* what the gateway holds for a number without profile: nothing
NoProfileData == [name |-> <<>>, picture |-> <<>>, status |-> <<>>, shape |-> "dict"]

\* the profile the routes build from the answer: the all-empty profile when the
\* lookup failed, found nothing, or raised (data that is not a dict, shape
\* "list", makes profile.get raise inside the try block)
ProfileOf(result, held) ==
    IF ~result.raised /\ result.success /\ held /\ result.data.shape = "dict"
    THEN [name |-> result.data.name, picture |-> result.data.picture,
          status |-> result.data.status]
    ELSE EmptyProfile

\* the profile fetched for a phone
FetchedProfile(clean_phone, fx, g) ==
    ProfileOf(Request(ModeOf(fx, "fetchProfile", clean_phone),
                      Get(g.profile, clean_phone, NoProfileData)),
              Has(g.profile, clean_phone))

\* a lookup that stores only the profiles it finds
StoreProfileIfFound(cache, clean_phone, profile) ==
    [cache |-> IF profile # EmptyProfile THEN Put(cache, clean_phone, profile) ELSE cache,
     profile |-> profile,
     calls |-> <<Call("fetchProfile", clean_phone)>>]

\* the fetched profile is stored, the all-empty one too
StoreProfile(cache, clean_phone, profile) ==
    [cache |-> Put(cache, clean_phone, profile), profile |-> profile,
     calls |-> <<Call("fetchProfile", clean_phone)>>]

\* the lookup of a cleaned phone
LookupProfile(cache, clean_phone, fx, g) ==
    IF Has(cache, clean_phone)
    THEN [cache |-> cache, profile |-> cache[clean_phone], calls |-> <<>>]
    ELSE StoreProfile(cache, clean_phone, FetchedProfile(clean_phone, fx, g))

\* get_contact_profile(phone_number): [cache, profile, calls]
get_contact_profile(cache, phone_number, fx, g) ==
    LookupProfile(cache, Remove(Remove(phone_number, SuffixDirect), "+"), fx, g)

GroupHeaderTail == 6

\* the header of a group whose subject lookup is done
GroupHeaderOf(remote_jid, phone, fallback, cached, names2) ==
    [names |-> names2,
     calls |-> IF cached THEN <<>> ELSE <<Call("findGroupInfos", remote_jid)>>,
     name |-> IF Get(names2, remote_jid, <<>>) # <<>> THEN names2[remote_jid]
              ELSE IF IsSelfShortOrEmpty(fallback)
                   THEN GroupLabel \o LastN(phone, GroupHeaderTail)
              ELSE fallback]

\* the chat header of a group: [names, name, calls]
GroupHeader(remote_jid, phone, contact_info, gnames, fx, g) ==
    GroupHeaderOf(remote_jid, phone, Or(contact_info.subject, contact_info.name),
                  Has(gnames, remote_jid), get_group_names(gnames, {remote_jid}, fx, g))

\* the chat header of an individual chat, given the looked-up profile
IndividualHeader(phone, contact_info, profile) ==
    LET n0 == contact_info.name
        n1 == IF profile.name # <<>> /\ (n0 = <<>> \/ n0 \in SelfNamesShort)
              THEN profile.name ELSE n0
        n2 == IF n1 \in SelfNamesShort THEN <<>> ELSE n1
    IN  [name |-> Or(n2, phone),
         profile_pic |-> Or(contact_info.profile_pic, profile.picture)]

-----------------------------------------------------------------------------
(* The caches and the requests *)

ContactsTtl == 300
GroupNamesTtl == 300
GroupPicsTtl == 1800
MessagesTtl == 30

\* the module-level caches as constructed, and as clear_all_whatsapp_cache leaves them
EmptyContactsCache == [data |-> NoContactsMap, timestamp |-> 0, ttl |-> ContactsTtl]
EmptyGroupNames == [data |-> EmptyDict, timestamp |-> 0, ttl |-> GroupNamesTtl]
EmptyGroupPics == [data |-> EmptyDict, timestamp |-> 0, ttl |-> GroupPicsTtl]

RECURSIVE IntToStr(_)
\* str(n), n >= 0
IntToStr(n) ==
    LET d == CHOOSE c \in Digits : c = CASE n % 10 = 0 -> "0" [] n % 10 = 1 -> "1"
                                          [] n % 10 = 2 -> "2" [] n % 10 = 3 -> "3"
                                          [] n % 10 = 4 -> "4" [] n % 10 = 5 -> "5"
                                          [] n % 10 = 6 -> "6" [] n % 10 = 7 -> "7"
                                          [] n % 10 = 8 -> "8" [] OTHER -> "9"
    IN  IF n < 10 THEN <<d>> ELSE IntToStr(n \div 10) \o <<d>>

\* f"{remote_jid}:{limit}:{page}"
MessagesCacheKey(remote_jid, limit, page) ==
    remote_jid \o <<":">> \o IntToStr(limit) \o <<":">> \o IntToStr(page)

\* f"messages:{remote_jid}"
WebhookCacheKey(remote_jid) ==
    <<"m", "e", "s", "s", "a", "g", "e", "s", ":">> \o remote_jid

RECURSIVE SeqToBag(_)
SeqToBag(xs) == IF xs = <<>> THEN EmptyBag ELSE SetToBag({Head(xs)}) (+) SeqToBag(Tail(xs))

\* what the caches hold when a request arrives: the domains that are not empty,
\* "page" for the page entry under `cache_key`, "subject" for the subject of group
\* `remote_jid`, "profile" for the profile of `phone`
Had(remote_jid, cache_key, phone) ==
    {d \in {"contacts"} : DictTruthy(contactsCache.data)}
    \cup {d \in {"messages"} : DOMAIN messagesCache # {}}
    \cup {d \in {"group_names"} : DOMAIN groupNames.data # {}}
    \cup {d \in {"group_pics"} : DOMAIN groupPics.data # {}}
    \cup {d \in {"profiles"} : DOMAIN profiles # {}}
    \cup {d \in {"page"} : Has(messagesCache, cache_key)}
    \cup {d \in {"subject"} : Has(groupNames.data, remote_jid)}
    \cup {d \in {"profile"} : Has(profiles, phone)}

HadAny == Had(<<"-">>, <<"-">>, <<"-">>)

\* what a media request did: the outcome of each get_media_base64 call it made, the
\* HTTP requests those calls sent, and the sleeps of get_media between the calls (ms)
NoMedia == [results |-> <<>>, sends |-> 0, sleeps |-> <<>>, last_error |-> <<>>]

\* the record of the last handled request: the request, the gateway calls it made,
\* how it ended, the contact directory it read and the contact profile it looked up
NoLast ==
    [op |-> "none", jid |-> <<>>, limit |-> 0, page |-> 0, offset |-> 0, search |-> <<>>,
     force |-> FALSE,
     event |-> "", fx |-> [failing |-> {}, mode |-> "ok"], had |-> {},
     calls |-> EmptyBag, raised |-> FALSE, hit |-> FALSE, directory |-> NoContactsMap,
     profile |-> <<>>, response |-> <<>>, media |-> NoMedia, started |-> 0]

ChatsFetchLimit == 5000

\* history: the groups whose entry is stored by this request get the time `t`
Stamp(at, old, new, t) ==
    [j \in DOMAIN new |-> IF Has(old, j) THEN at[j] ELSE t]

\* the request ends in the outer handler: HTTP 500
ChatPageFailed(limit, offset, search, fx, cc, calls) ==
    /\ contactsCache' = cc.cache
    /\ last' = [NoLast EXCEPT !.op = "GetChatPage", !.limit = limit, !.offset = offset,
                              !.search = search,
                              !.fx = fx, !.calls = calls, !.raised = TRUE,
                              !.had = HadAny, !.directory = cc.map]
    /\ UNCHANGED <<now, gw, messagesCache, profiles, groupNames, groupPics, storedAt,
                 mediaCache>>

\* the page is returned; the prefetched subjects and avatars stay in their caches
ChatPageStore(limit, offset, search, fx, cc, calls, gn2, gp2, page) ==
    /\ contactsCache' = cc.cache
    /\ groupNames' = [groupNames EXCEPT !.data = gn2]
    /\ groupPics' = [groupPics EXCEPT !.data = gp2]
    /\ storedAt' = [names |-> Stamp(storedAt.names, groupNames.data, gn2, now),
                    pics |-> Stamp(storedAt.pics, groupPics.data, gp2, now)]
    /\ last' = [NoLast EXCEPT !.op = "GetChatPage", !.limit = limit, !.offset = offset,
                              !.search = search,
                              !.fx = fx, !.calls = calls, !.had = HadAny,
                              !.directory = cc.map,
                              !.response = <<[items |-> page.items, total |-> page.total]>>]
    /\ UNCHANGED <<now, gw, messagesCache, profiles, mediaCache>>

\* the banned users are read inside a try block: a failure leaves none banned
BannedUsers(fx) ==
    IF Call("banned_users", <<>>) \in fx.failing THEN {} ELSE gw.banned

\* the rows are built from the chats with the prefetched subjects and avatars
ChatPageBuild(limit, offset, search, show_banned, fx, cc, ch, calls, gn2, gp2) ==
    ChatPageStore(limit, offset, search, fx, cc, calls, gn2, gp2,
                  ChatPage(ch.value, cc.map, BannedUsers(fx), show_banned, search, gn2,
                           gp2, offset, limit, now, gw.tz))

\* the subjects and avatars of the groups not yet cached are fetched in one batch
ChatPagePrefetch(limit, offset, search, show_banned, fx, cc, ch, jids) ==
    ChatPageBuild(limit, offset, search, show_banned, fx, cc, ch,
                  SeqToBag(cc.calls) (+) SeqToBag(ch.calls)
                      (+) SetToBag(PrefetchCalls(jids, groupNames.data, groupPics.data)),
                  get_group_names(groupNames.data, jids, fx, gw),
                  get_group_profile_pics(groupPics.data, jids, fx, gw))

\* the chats are fetched; the first pass records the latest timestamp of each JID
ChatPageChats(limit, offset, search, show_banned, fx, cc, ch) ==
    IF \/ ch.raised
       \/ LatestPass(ch.value, 1, cc.map.lid_to_phone,
                     [latest |-> EmptyDict, raised |-> FALSE]).raised
    THEN ChatPageFailed(limit, offset, search, fx, cc, SeqToBag(cc.calls) (+) SeqToBag(ch.calls))
    ELSE ChatPagePrefetch(limit, offset, search, show_banned, fx, cc, ch,
                          GroupJidsToFetch(ch.value, groupNames.data, groupPics.data))

\* the contact directory is read first
ChatPageContacts(limit, offset, search, show_banned, fx, cc) ==
    IF cc.raised
    THEN ChatPageFailed(limit, offset, search, fx, cc, SeqToBag(cc.calls))
    ELSE ChatPageChats(limit, offset, search, show_banned, fx, cc,
                       get_chats(fx, gw, ChatsFetchLimit))

\* GET /whatsapp/chats
GetChatPage(limit, offset, search, show_banned, fx) ==
    /\ ChatPageContacts(limit, offset, search, show_banned, fx,
                        get_cached_contacts(contactsCache, now, fx, gw))
    /\ UNCHANGED inflight

\* a cached page served up to and including the age of 30 seconds
PageFreshInclusive(cached, current_time) == current_time - cached.timestamp <= MessagesTtl

\* a cached page is served while it is younger than 30 seconds
PageFresh(cached, current_time) == current_time - cached.timestamp < MessagesTtl

\* the request ends in the outer handler: HTTP 500
MessagePageFailed(request, cc, calls) ==
    /\ last' = [request EXCEPT !.calls = calls, !.raised = TRUE, !.directory = cc.map,
                               !.started = 0]
    /\ contactsCache' = cc.cache
    /\ UNCHANGED <<messagesCache, groupNames, storedAt, profiles>>

\* response_data
PageResponse(items, total, remote_jid, phone, name, profile_pic, is_group) ==
    [items |-> items, total |-> total,
     chat |-> [remote_jid |-> remote_jid, phone |-> phone, name |-> name,
               profile_pic |-> profile_pic, is_group |-> is_group]]

\* the response is stored under the page's key with current_time, the time read
\* when the request began
\* the response stored with the time at which the request ends
PageStoreAtEnd(cache_key, request, cc, calls, profile, response_data, names, profile_cache) ==
    /\ last' = [request EXCEPT !.calls = calls, !.directory = cc.map, !.started = 0,
                               !.profile = profile, !.response = <<response_data>>]
    /\ contactsCache' = cc.cache
    /\ messagesCache' = Put(messagesCache, cache_key,
                            [data |-> response_data, timestamp |-> now])
    /\ groupNames' = [groupNames EXCEPT !.data = names]
    /\ storedAt' = [storedAt EXCEPT
                       !.names = Stamp(storedAt.names, groupNames.data, names, now)]
    /\ profiles' = profile_cache

PageStore(cache_key, request, cc, calls, profile, response_data, names, profile_cache) ==
    /\ last' = [request EXCEPT !.calls = calls, !.directory = cc.map, !.started = 0,
                               !.profile = profile, !.response = <<response_data>>]
    /\ contactsCache' = cc.cache
    /\ messagesCache' = Put(messagesCache, cache_key,
                            [data |-> response_data, timestamp |-> request.started])
    /\ groupNames' = [groupNames EXCEPT !.data = names]
    /\ storedAt' = [storedAt EXCEPT
                       !.names = Stamp(storedAt.names, groupNames.data, names, now)]
    /\ profiles' = profile_cache

\* the header of a group chat: its participants are read, its subject looked up
GroupPageStore(remote_jid, cache_key, phone, request, cc, calls, fm, items, contact_info, gh) ==
    PageStore(cache_key, request, cc,
              calls (+) SetToBag({Call("participants", remote_jid)}) (+) SeqToBag(gh.calls),
              <<>>,
              PageResponse(items, fm.total, remote_jid, phone, gh.name,
                           contact_info.profile_pic, TRUE),
              gh.names, profiles)

\* the header of an individual chat whose profile lookup is done
DirectPageHeaded(remote_jid, cache_key, phone, request, cc, calls, fm, items, pr, ih) ==
    PageStore(cache_key, request, cc, calls (+) SeqToBag(pr.calls), <<pr.profile>>,
              PageResponse(items, fm.total, remote_jid, phone, ih.name, ih.profile_pic,
                           FALSE),
              groupNames.data, pr.cache)

\* the header of an individual chat
DirectPageStore(remote_jid, cache_key, phone, request, cc, calls, fm, items, contact_info, pr) ==
    DirectPageHeaded(remote_jid, cache_key, phone, request, cc, calls, fm, items, pr,
                     IndividualHeader(phone, contact_info, pr.profile))

\* the gateway calls made up to the message fetch
PageCalls(remote_jid, cc, fm) ==
    SeqToBag(cc.calls)
    (+) (IF Contains(remote_jid, SuffixLid)
         THEN SetToBag({Call("fetchInstances", <<>>)}) ELSE EmptyBag)
    (+) SeqToBag(fm.calls)

\* the messages are fetched; the header depends on the kind of chat
MessagePageHeader(remote_jid, cache_key, phone, request, fx, cc, fm, items, contact_info) ==
    IF Contains(remote_jid, SuffixGroup)
    THEN GroupPageStore(remote_jid, cache_key, phone, request, cc,
                        PageCalls(remote_jid, cc, fm), fm, items, contact_info,
                        GroupHeader(remote_jid, phone, contact_info, groupNames.data,
                                    fx, gw))
    ELSE DirectPageStore(remote_jid, cache_key, phone, request, cc,
                         PageCalls(remote_jid, cc, fm), fm, items, contact_info,
                         get_contact_profile(profiles, phone, fx, gw))

\* the owner of the instance is looked up for an @lid chat
PageOwnerJid(remote_jid, fx) ==
    IF Contains(remote_jid, SuffixLid) THEN OwnerJid(fx, gw) ELSE <<>>

\* the message fetch is not protected: its failure ends the request
MessagePageFetched(remote_jid, cache_key, phone, request, fx, cc, fm) ==
    IF fm.raised
    THEN MessagePageFailed(request, cc, PageCalls(remote_jid, cc, fm))
    ELSE MessagePageHeader(remote_jid, cache_key, phone, request, fx, cc, fm,
                           MessageItems(fm.records, remote_jid,
                                        PageOwnerJid(remote_jid, fx), now, gw.tz,
                                        LoopContext(fm.records, cc.map.entries,
                                                    RosterOf(remote_jid, fx, gw))),
                           IF Has(cc.map.entries, remote_jid)
                           THEN cc.map.entries[remote_jid]
                           ELSE Get(cc.map.entries, phone, NoContact))

\* the contact directory is read first
MessagePageContacts(remote_jid, limit, page, cache_key, phone, request, fx, cc) ==
    IF cc.raised
    THEN MessagePageFailed(request, cc, SeqToBag(cc.calls))
    ELSE MessagePageFetched(remote_jid, cache_key, phone, request, fx, cc,
                            FetchMessages(remote_jid, limit, page, cc.map, fx, gw))

\* a fresh cached page is returned as it is; otherwise the page is built
MessagePageServe(remote_jid, limit, page, cache_key, phone, fresh, request, fx) ==
    /\ UNCHANGED <<now, gw, groupPics, mediaCache>>
    /\ IF fresh
       THEN /\ last' = [request EXCEPT !.hit = TRUE, !.started = 0,
                                       !.response = <<messagesCache[cache_key].data>>]
            /\ UNCHANGED <<contactsCache, messagesCache, groupNames, profiles, storedAt>>
       ELSE MessagePageContacts(remote_jid, limit, page, cache_key, phone, request, fx,
                                get_cached_contacts(contactsCache, now, fx, gw))

\* the request under its cache key
MessagePageKeyed(remote_jid, limit, page, force_refresh, fx, cache_key, phone) ==
    MessagePageServe(remote_jid, limit, page, cache_key, phone,
                     /\ ~force_refresh
                     /\ Has(messagesCache, cache_key)
                     /\ PageFresh(messagesCache[cache_key], now),
                     [NoLast EXCEPT !.op = "GetMessagePage", !.jid = remote_jid,
                                    !.limit = limit, !.page = page,
                                    !.force = force_refresh, !.fx = fx, !.started = now,
                                    !.had = Had(remote_jid, cache_key, phone)],
                     fx)

\* GET /whatsapp/chats/{remote_jid}/messages
GetMessagePage(remote_jid, limit, page, force_refresh, fx) ==
    /\ MessagePageKeyed(remote_jid, limit, page, force_refresh, fx,
                        MessagesCacheKey(remote_jid, limit, page),
                        clean_phone_number(remote_jid))
    /\ UNCHANGED inflight

MessageEvents == {"MESSAGES_UPSERT", "MESSAGES_UPDATE", "SEND_MESSAGE"}

\* del d[k]
Del(d, k) == [x \in (DOMAIN d) \ {k} |-> d[x]]

\* a webhook that flushes every cache when a message event names a chat
EvolutionWebhookFlushAll(event, remote_jid) ==
    LET flush == event \in MessageEvents /\ remote_jid # <<>>
    IN  /\ messagesCache' = IF flush THEN EmptyDict ELSE messagesCache
        /\ contactsCache' = IF flush THEN EmptyContactsCache ELSE contactsCache
        /\ groupNames' = IF flush THEN EmptyGroupNames ELSE groupNames
        /\ groupPics' = IF flush THEN EmptyGroupPics ELSE groupPics
        /\ profiles' = IF flush THEN EmptyDict ELSE profiles
        /\ storedAt' = IF flush THEN [names |-> EmptyDict, pics |-> EmptyDict] ELSE storedAt
        /\ last' = [NoLast EXCEPT !.op = "EvolutionWebhook", !.event = event,
                                  !.jid = remote_jid, !.had = HadAny]
        /\ UNCHANGED <<now, gw, mediaCache, inflight>>

\* POST /webhook/evolution with {"event": event, "data": {"key": {"remoteJid": remote_jid}}}
EvolutionWebhook(event, remote_jid) ==
    LET cache_key == WebhookCacheKey(remote_jid)
    IN  /\ messagesCache' =
               IF event \in MessageEvents /\ remote_jid # <<>> /\ Has(messagesCache, cache_key)
               THEN Del(messagesCache, cache_key)
               ELSE messagesCache
        /\ last' = [NoLast EXCEPT !.op = "EvolutionWebhook", !.event = event,
                                  !.jid = remote_jid, !.had = HadAny]
        /\ UNCHANGED <<now, gw, contactsCache, groupNames, groupPics, profiles, storedAt,
                     mediaCache, inflight>>

\* a flush that forgets the contact profiles
clear_all_but_profiles ==
    /\ contactsCache' = EmptyContactsCache
    /\ messagesCache' = EmptyDict
    /\ groupNames' = EmptyGroupNames
    /\ groupPics' = EmptyGroupPics
    /\ profiles' = profiles
    /\ storedAt' = [names |-> EmptyDict, pics |-> EmptyDict]

\* clear_all_whatsapp_cache()
clear_all_whatsapp_cache ==
    /\ contactsCache' = EmptyContactsCache
    /\ messagesCache' = EmptyDict
    /\ groupNames' = EmptyGroupNames
    /\ groupPics' = EmptyGroupPics
    /\ profiles' = EmptyDict
    /\ storedAt' = [names |-> EmptyDict, pics |-> EmptyDict]

\* WhatsAppConnector.logout(): logout then delete, both through _request
ConnectorLogout(fx) ==
    LET logout_result == Request(ModeOf(fx, "instanceLogout", <<>>), <<>>)
        delete_result == Request(ModeOf(fx, "instanceDelete", <<>>), <<>>)
    IN  [raised |-> logout_result.raised \/ delete_result.raised,
         calls |-> IF logout_result.raised THEN <<Call("instanceLogout", <<>>)>>
                   ELSE <<Call("instanceLogout", <<>>), Call("instanceDelete", <<>>)>>]

\* the body shared by DELETE /whatsapp/disconnect and POST /whatsapp/logout
LogoutThenClear(op, fx) ==
    LET result == ConnectorLogout(fx)
    IN  /\ IF result.raised THEN UNCHANGED <<caches, storedAt>> ELSE clear_all_whatsapp_cache
        /\ last' = [NoLast EXCEPT !.op = op, !.fx = fx, !.calls = SeqToBag(result.calls),
                                  !.raised = result.raised, !.had = HadAny]
        /\ UNCHANGED <<now, gw, mediaCache, inflight>>

\* DELETE /whatsapp/disconnect
Disconnect(fx) == LogoutThenClear("Disconnect", fx)

\* POST /whatsapp/logout
Logout(fx) == LogoutThenClear("Logout", fx)

\* POST /whatsapp/clear-cache
ClearCache ==
    /\ clear_all_whatsapp_cache
    /\ last' = [NoLast EXCEPT !.op = "ClearCache", !.had = HadAny]
    /\ UNCHANGED <<now, gw, mediaCache, inflight>>

-----------------------------------------------------------------------------
(* get_media: the media proxy with its disk cache.  The texts of errors are  *)
(* sequences of words; a base64 string is a sequence of characters.          *)

MediaMaxRetries == 3
BackoffBaseMs == 500

\* MEDIA_CACHE_DIR (the files, by cache key) and _media_cache_info (the mimetypes)
NoMediaCache == [files |-> EmptyDict, info |-> EmptyDict]

\* get_media_cache_path: md5 of "message_id:remote_jid", distinct for distinct pairs
get_media_cache_path(message_id, remote_jid) == <<message_id, remote_jid>>

OctetStream == <<"application/octet-stream">>
ErrTimeout == <<"timeout">>
ErrMediaNotFound == <<"Media", " ", "not", " ", "found">>
ErrFailedToGetMedia == <<"Failed", " ", "to", " ", "get", " ", "media">>
ErrNoMediaData == <<"No", " ", "media", " ", "data", " ", "returned">>
ErrDecodePrefix == <<"Failed", " ", "to", " ", "decode", " ", "media", ":", " ">>
ErrIncorrectPadding == <<"Incorrect", " ", "padding">>
ExpiredDetail == <<"Media", " ", "expired", " ", "or", " ", "unavailable", ".", " ", "WhatsApp", " ", "media", " ", "may", " ", "expire", " ", "after", " ", "some", " ", "time", ".">>

\* base64.b64decode of one group of four characters
DecodeQuad(q) ==
    CASE q = <<"a", "G", "k", "=">> -> <<"h", "i">>
      [] q = <<"b", "2", "s", "=">> -> <<"o", "k">>
      [] q = <<"a", "G", "k", "h">> -> <<"h", "i", "!">>
      [] OTHER -> <<"?">>

RECURSIVE DecodeQuads(_)
DecodeQuads(s) == IF Len(s) < 4 THEN <<>> ELSE DecodeQuad(SubSeq(s, 1, 4)) \o DecodeQuads(SubSeq(s, 5, Len(s)))

\* base64.b64decode: binascii.Error("Incorrect padding") unless the length is a
\* multiple of four
b64decode(s) ==
    IF Len(s) % 4 # 0 THEN [ok |-> FALSE, bytes |-> <<>>, error |-> ErrIncorrectPadding]
    ELSE [ok |-> TRUE, bytes |-> DecodeQuads(s), error |-> <<>>]

\* the "error" key of what _request returns: present only when every attempt raised;
\* `message` is str(e) of the aiohttp.ClientError or of the other exception
RequestError(mode, message) ==
    CASE mode = "timeout" -> [has |-> TRUE, text |-> ErrTimeout]
      [] mode \in {"client_error", "exception"} -> [has |-> TRUE, text |-> message]
      [] OTHER -> [has |-> FALSE, text |-> <<>>]

\* EvolutionService.get_media_base64; out = [mode, message, data] is what the gateway
\* does with this call; `sends` counts the HTTP requests _request sent for it
MediaBase64Of(out, result) ==
    IF result.success /\ result.data # <<>>
    THEN [success |-> TRUE, base64 |-> result.data.base64, mimetype |-> result.data.mimetype, error |-> <<>>, sends |-> result.attempts]
    ELSE [success |-> FALSE, base64 |-> <<>>, mimetype |-> <<>>, error |-> IF RequestError(out.mode, out.message).has THEN RequestError(out.mode, out.message).text ELSE ErrFailedToGetMedia, sends |-> result.attempts]

get_media_base64(out) == MediaBase64Of(out, Request(out.mode, out.data))

\* the sleep of get_media after attempt number `attempt` (from 0), in milliseconds
Backoff(attempt) == BackoffBaseMs * (2 ^ attempt)

ShouldSleepAlways(attempt) == TRUE

\* get_media sleeps after every failed attempt but the last
ShouldSleep(attempt) == attempt < MediaMaxRetries - 1

\* last_error after a failed attempt
AttemptError(result) ==
    IF result.success
    THEN IF result.base64 # <<>> THEN ErrDecodePrefix \o b64decode(result.base64).error
         ELSE ErrNoMediaData
    ELSE result.error

\* the attempt returns the media: the data is there and it decodes
AttemptServes(result) == result.success /\ result.base64 # <<>> /\ b64decode(result.base64).ok

\* what the request did so far, with one more get_media_base64 call
MediaSoFar(acc, attempt, out, result) ==
    [results |-> Append(acc.results, out.kind),
     sends |-> acc.sends + result.sends,
     sleeps |-> IF ~AttemptServes(result) /\ ShouldSleep(attempt) THEN Append(acc.sleeps, Backoff(attempt)) ELSE acc.sleeps,
     last_error |-> IF AttemptServes(result) THEN acc.last_error ELSE AttemptError(result)]

\* "All retries failed": HTTPException(404) with the detail
MediaFailed(acc) ==
    [status |-> 404, content |-> <<>>, mimetype |-> <<>>, xcache |-> "",
     detail |-> IF IsSubstring(<<"not", " ", "found">>, Lower(acc.last_error)) \/ IsSubstring(<<"failed">>, Lower(acc.last_error)) THEN ExpiredDetail ELSE acc.last_error,
     store |-> FALSE, media |-> acc]

MediaFound(result, acc) ==
    [status |-> 200, content |-> b64decode(result.base64).bytes, mimetype |-> result.mimetype, xcache |-> "MISS", detail |-> <<>>, store |-> TRUE, media |-> acc]

RECURSIVE MediaLoop(_, _, _)
MediaAttempt(attempt, outs, acc, result) ==
    IF AttemptServes(result) THEN MediaFound(result, MediaSoFar(acc, attempt, outs[attempt + 1], result))
    ELSE MediaLoop(attempt + 1, outs, MediaSoFar(acc, attempt, outs[attempt + 1], result))

\* for attempt in range(max_retries)
MediaLoop(attempt, outs, acc) ==
    IF attempt >= MediaMaxRetries THEN MediaFailed(acc)
    ELSE MediaAttempt(attempt, outs, acc, get_media_base64(outs[attempt + 1]))

\* the answer from the disk cache
MediaHit(key) ==
    [status |-> 200, content |-> mediaCache.files[key], mimetype |-> Get(mediaCache.info, key, OctetStream), xcache |-> "HIT", detail |-> <<>>, store |-> FALSE, media |-> NoMedia]

MediaAnswer(message_id, remote_jid, key, hit, answer) ==
    /\ mediaCache' = IF answer.store THEN [files |-> Put(mediaCache.files, key, answer.content), info |-> Put(mediaCache.info, key, answer.mimetype)] ELSE mediaCache
    /\ last' = [NoLast EXCEPT !.op = "GetMedia", !.jid = remote_jid, !.hit = hit, !.media = answer.media, !.response = [id |-> message_id, status |-> answer.status, content |-> answer.content, mimetype |-> answer.mimetype, xcache |-> answer.xcache, detail |-> answer.detail]]
    /\ UNCHANGED <<now, gw, caches, storedAt, inflight>>

\* GET /media/{message_id}; outs[i] is what the gateway does with the i-th
\* get_media_base64 call of this request
GetMedia(message_id, remote_jid, from_me, outs) ==
    IF Has(mediaCache.files, get_media_cache_path(message_id, remote_jid))
    THEN MediaAnswer(message_id, remote_jid, get_media_cache_path(message_id, remote_jid), TRUE, MediaHit(get_media_cache_path(message_id, remote_jid)))
    ELSE MediaAnswer(message_id, remote_jid, get_media_cache_path(message_id, remote_jid), FALSE, MediaLoop(0, outs, [NoMedia EXCEPT !.last_error = ErrMediaNotFound]))

\* DELETE /media/cache
ClearMediaCache ==
    /\ mediaCache' = NoMediaCache
    /\ last' = [NoLast EXCEPT !.op = "ClearMediaCache"]
    /\ UNCHANGED <<now, gw, caches, storedAt, inflight>>

-----------------------------------------------------------------------------
(* The gateway's data: identifiers, contacts, chats, messages *)

PhoneA == <<"2", "0", "1">>
PhoneOwner == <<"2", "0", "9">>
DirectA == PhoneA \o <<SuffixDirect>>
LidA == <<"7", "1">> \o <<SuffixLid>>
LidB == <<"7", "2">> \o <<SuffixLid>>
GroupG == <<"1", "2", "0", "3">> \o <<SuffixGroup>>

NameAli == <<"A", "l", "i">>
NameAly == <<"A", "l", "y">>
SubjectOne == <<"T", "e", "a", "m">>
SubjectTwo == <<"C", "r", "e", "w">>
PicUrlA == <<"h", "/", "fpA", "?", "k">>
PicUrlG == <<"h", "/", "g", "1">>
PicUrlH == <<"h", "/", "g", "2">>

Contact(jid, name, pic) ==
    [remoteJid |-> jid, isGroup |-> FALSE, type |-> "", pushName |-> name, name |-> <<>>,
     subject |-> <<>>, profilePicUrl |-> pic]

\* DirectA and LidA carry the same avatar, so LidA maps to DirectA
DirectoryOne == <<Contact(DirectA, NameAli, PicUrlA), Contact(LidA, NameAli, PicUrlA)>>
\* a later directory: the contact renamed, the @lid entry gone
DirectoryTwo == <<Contact(DirectA, NameAly, PicUrlA)>>

TextOf(ts) == <<"m", IntToStr(ts)[1]>>

Payload(text) ==
    [conversation |-> text, extendedText |-> <<>>, kind |-> "conversation",
     fileName |-> <<>>, reactionText |-> <<>>, caption |-> <<>>, ptt |-> FALSE]

\* a raw chat whose last message was sent at `ts`
Chat(jid, ts) ==
    [remoteJid |-> jid,
     lastMessage |-> <<[message |-> Payload(TextOf(ts)), messageType |-> "conversation",
                        messageTimestamp |-> <<ts>>, pushName |-> <<>>]>>,
     unreadCount |-> 0, notify |-> <<>>, verifiedName |-> <<>>, pushName |-> <<>>,
     name |-> <<>>, subject |-> <<>>, profilePicUrl |-> <<>>, updatedAt |-> <<>>]

\* a message record of chat `jid` with id `id`, sent at `ts`
Message(jid, id, ts) ==
    [key |-> [id |-> id, remoteJid |-> jid, fromMe |-> FALSE, participant |-> <<>>,
              participantAlt |-> <<>>],
     message |-> Payload(TextOf(ts)), messageTimestamp |-> <<ts>>, pushName |-> <<>>,
     updatedAt |-> <<>>]

Held(records) == [records |-> records, total |-> Len(records)]

NoFx == [failing |-> {}, mode |-> "ok"]

GatewayOne ==
    [contacts |-> DirectoryOne,
     chats |-> <<Chat(LidA, 3), Chat(GroupG, 2), Chat(DirectA, 1)>>,
     recent |-> <<>>,
     groupSubject |-> (GroupG :> SubjectOne),
     groupPicUrl |-> (GroupG :> PicUrlG),
     messages |-> (LidA :> Held(<<Message(LidA, <<"a">>, 3)>>))
                  @@ (DirectA :> Held(<<Message(DirectA, <<"b">>, 1)>>))
                  @@ (GroupG :> Held(<<Message(GroupG, <<"c">>, 2)>>)),
     ownerJid |-> PhoneOwner \o <<SuffixDirect>>,
     participants |-> EmptyDict,
     profile |-> (PhoneA :> [name |-> NameAli, picture |-> PicUrlA, status |-> <<>>,
                             shape |-> "dict"]),
     banned |-> {},
     tz |-> 0,
     fx |-> NoFx]

\* the gateway after new messages, a renamed contact and a renamed group; what it
\* answers for the profile of PhoneA is not a dict
GatewayTwo ==
    [GatewayOne EXCEPT
        !.contacts = DirectoryTwo,
        !.chats = <<Chat(GroupG, 5), Chat(LidA, 4), Chat(DirectA, 1)>>,
        !.groupSubject = (GroupG :> SubjectTwo),
        !.groupPicUrl = (GroupG :> PicUrlH),
        !.messages = (LidA :> Held(<<Message(LidA, <<"d">>, 4), Message(LidA, <<"a">>, 3)>>))
                     @@ (DirectA :> Held(<<Message(DirectA, <<"b">>, 1)>>))
                     @@ (GroupG :> Held(<<Message(GroupG, <<"e">>, 5),
                                          Message(GroupG, <<"c">>, 2)>>)),
        !.profile = (PhoneA :> [name |-> NameAly, picture |-> <<>>, status |-> <<>>,
                                shape |-> "list"])]

\* every call a request can make to the gateway, and the banned-users lookup
GatewayCalls ==
    {Call("findContacts", <<>>), Call("findChats", <<>>), Call("findMessagesAll", <<>>),
     Call("fetchInstances", <<>>), Call("instanceLogout", <<>>), Call("instanceDelete", <<>>),
     Call("banned_users", <<>>), Call("fetchProfile", PhoneA), Call("fetchProfile", <<>>)}
    \cup {Call(k, j) : k \in {"findMessages", "findGroupInfos", "fetchProfilePictureUrl",
                             "participants"},
                       j \in {DirectA, LidA, LidB, GroupG}}

\* the gateway out of reach
GatewayDown == [GatewayOne EXCEPT !.fx = [failing |-> GatewayCalls, mode |-> "timeout"]]

-----------------------------------------------------------------------------
(* The service over time: requests, webhooks, flushes, the clock, the gateway *)

MaxSteps == 3

DefaultLimit == 50
Pages == {1, 2}
TimePoints == {0, 29, 30, 300, 1800}
CacheJids == {DirectA, LidA, GroupG}
CacheGateways == {GatewayOne, GatewayTwo, GatewayDown}
WebhookEvents == MessageEvents \cup {"CONNECTION_UPDATE"}

InitCaches ==
    /\ contactsCache = EmptyContactsCache
    /\ messagesCache = EmptyDict
    /\ groupNames = EmptyGroupNames
    /\ groupPics = EmptyGroupPics
    /\ profiles = EmptyDict
    /\ storedAt = [names |-> EmptyDict, pics |-> EmptyDict]
    /\ mediaCache = NoMediaCache
    /\ inflight = EmptyDict
    /\ last = NoLast
    /\ steps = 0

Init ==
    /\ InitCaches
    /\ now = 0
    /\ gw \in CacheGateways

\* time passes, and the gateway's data or its reachability may change meanwhile
Elapse ==
    /\ \E t \in TimePoints, g \in CacheGateways :
          /\ t >= now
          /\ <<t, g>> # <<now, gw>>
          /\ now' = t
          /\ gw' = g
    /\ UNCHANGED <<caches, storedAt, last, mediaCache, inflight>>

\* a step counted against the bound of the run
Counted == steps < MaxSteps /\ steps' = steps + 1

Next ==
    \/ Counted /\ GetChatPage(DefaultLimit, 0, <<>>, FALSE, gw.fx)
    \/ \E jid \in CacheJids, page \in Pages, force \in BOOLEAN :
          Counted /\ GetMessagePage(jid, DefaultLimit, page, force, gw.fx)
    \/ \E event \in WebhookEvents, jid \in CacheJids \cup {<<>>} :
          Counted /\ EvolutionWebhook(event, jid)
    \/ Counted /\ Disconnect(gw.fx)
    \/ Counted /\ Logout(gw.fx)
    \/ Counted /\ ClearCache
    \/ Counted /\ Elapse

Spec == Init /\ [][Next]_vars

-----------------------------------------------------------------------------
(* Properties of the caches (Spec) *)

FlushOps == {"Disconnect", "Logout", "ClearCache"}
ReadOps == {"GetChatPage", "GetMessagePage"}
AllDomains == {"contacts", "messages", "group_names", "group_pics", "profiles"}

FindContacts == Call("findContacts", <<>>)

\* the chat a cached page belongs to
PageChat(entry) == entry.data.chat.remote_jid

\* a request is handled in this step (time stands still while it is handled)
Handled == steps' = steps + 1 /\ now' = now /\ gw' = gw

\* the request handled in this step reads the contact directory
ReadsContacts == Handled /\ last'.op \in ReadOps /\ ~last'.hit

\* the request handled in this step is for a message page
RequestsPage == Handled /\ last'.op = "GetMessagePage"

\* C4: once a MESSAGES_UPSERT, MESSAGES_UPDATE or SEND_MESSAGE webhook that names
\* chat C has been handled, the message-page cache holds no entry of C, whatever
\* its limit and page.
C4_WebhookFlushesChatPages ==
    (last.op = "EvolutionWebhook" /\ last.event \in MessageEvents /\ last.jid # <<>>)
        => \A k \in DOMAIN messagesCache : PageChat(messagesCache[k]) # last.jid

\* C5: when disconnect, logout or clear-cache has returned, the contact directory
\* with its identity mapping, the message pages, the group subjects, the group
\* avatars and the contact profiles are all empty, and a read of the directory
\* would be a miss.
C5_FlushEmptiesAllCaches ==
    last.op \in FlushOps =>
        /\ DOMAIN contactsCache.data.entries = {}
        /\ DOMAIN contactsCache.data.lid_to_phone = {}
        /\ ~ContactsFresh(contactsCache, now)
        /\ DOMAIN messagesCache = {}
        /\ DOMAIN groupNames.data = {}
        /\ DOMAIN groupPics.data = {}
        /\ DOMAIN profiles = {}

\* a flush has returned that found every cache domain filled
C5_Witness == last.op \in FlushOps /\ AllDomains \subseteq last.had

\* C6: a read of a stored contact directory younger than 5 minutes returns the
\* stored directory, calls the gateway for no contacts and leaves the cache as it
\* is; a read at 5 minutes or later fetches the contacts exactly once and stores
\* the directory built from the fetched list alone, with the time of the read.
C6_ContactDirectoryTtl ==
    [][(ReadsContacts /\ DictTruthy(contactsCache.data)) =>
          IF now - contactsCache.timestamp < ContactsTtl
          THEN /\ last'.directory = contactsCache.data
               /\ CopiesIn(FindContacts, last'.calls) = 0
               /\ contactsCache' = contactsCache
          ELSE /\ CopiesIn(FindContacts, last'.calls) = 1
               /\ contactsCache'.data =
                     BuildContactsMap(IF FindContacts \in gw.fx.failing
                                      THEN <<>> ELSE gw.contacts)
               /\ contactsCache'.timestamp = now
               /\ last'.directory = contactsCache'.data]_vars

\* a read at 5 minutes or later of a directory that held the @lid contact, after
\* the gateway dropped that contact: the stored directory no longer holds it
C6_Witness ==
    /\ last.op \in ReadOps
    /\ "contacts" \in last.had
    /\ CopiesIn(FindContacts, last.calls) = 1
    /\ now >= ContactsTtl
    /\ contactsCache.timestamp = now
    /\ gw = GatewayTwo
    /\ Has(contactsCache.data.entries, DirectA)
    /\ ~Has(contactsCache.data.entries, LidA)

\* C7: a message-page request without forceRefresh whose entry is younger than 30
\* seconds returns the stored response and makes no gateway call; with an entry of
\* 30 seconds or older, or with forceRefresh, the messages are fetched again and
\* the entry becomes the new response with the time of the request.
C7_MessagePageTtl ==
    [][(RequestsPage
        /\ Has(messagesCache, MessagesCacheKey(last'.jid, last'.limit, last'.page))) =>
          LET cache_key == MessagesCacheKey(last'.jid, last'.limit, last'.page)
              cached == messagesCache[cache_key]
          IN  IF ~last'.force /\ now - cached.timestamp < MessagesTtl
              THEN /\ last'.response = <<cached.data>>
                   /\ BagToSet(last'.calls) = {}
                   /\ messagesCache' = messagesCache
              ELSE /\ CopiesIn(Call("findMessages", last'.jid), last'.calls) = 1
                   /\ last'.response # <<>>
                   /\ messagesCache'[cache_key] =
                         [data |-> last'.response[1], timestamp |-> now]]_vars

\* a page stored, then requested again without forceRefresh 30 seconds or more
\* later, after new messages arrived: the new page is returned and stored
C7_Witness ==
    /\ last.op = "GetMessagePage"
    /\ "page" \in last.had
    /\ ~last.force
    /\ ~last.hit
    /\ last.jid = LidA
    /\ last.page = 1
    /\ gw = GatewayTwo
    /\ Len(last.response[1].items) = 2
    /\ messagesCache[MessagesCacheKey(LidA, DefaultLimit, 1)].timestamp = now
    /\ now >= MessagesTtl

\* the groups whose chat is in the gateway's chat list
ListedGroups ==
    {gw.chats[i].remoteJid : i \in {k \in 1..Len(gw.chats) :
                                      Contains(gw.chats[k].remoteJid, SuffixGroup)}}

\* C8: a request that reads the subject of a group whose cached subject is 5
\* minutes old or older fetches the subject from the gateway, and a request that
\* reads the avatar of a group whose cached avatar is 30 minutes old or older
\* fetches the avatar from the gateway.
C8_GroupCachesExpire ==
    [][/\ (RequestsPage /\ ~last'.hit /\ Has(groupNames.data, last'.jid)
           /\ now - storedAt.names[last'.jid] >= GroupNamesTtl)
          => CopiesIn(Call("findGroupInfos", last'.jid), last'.calls) >= 1
       /\ (Handled /\ last'.op = "GetChatPage")
          => \A j \in ListedGroups :
                (Has(groupPics.data, j) /\ now - storedAt.pics[j] >= GroupPicsTtl)
                   => CopiesIn(Call("fetchProfilePictureUrl", j), last'.calls) >= 1]_vars

\* C9: a message-page request of an individual chat looks up the profile of the
\* chat's phone.  When a profile of that phone is stored, the stored profile is
\* returned, no gateway call is made and the stored profiles stay as they are.
\* When none is stored, the gateway is called once and the result is stored: the
\* all-empty profile when the gateway fails, holds no profile or answers what is
\* not a profile.
C9_ContactProfileCached ==
    [][(RequestsPage /\ ~last'.hit /\ ~Contains(last'.jid, SuffixGroup)) =>
          LET phone == clean_phone_number(last'.jid)
              lookup == Call("fetchProfile", phone)
              fails == \/ lookup \in gw.fx.failing
                       \/ ~Has(gw.profile, phone)
                       \/ gw.profile[phone].shape # "dict"
          IN  IF Has(profiles, phone)
              THEN /\ last'.profile = <<profiles[phone]>>
                   /\ CopiesIn(lookup, last'.calls) = 0
                   /\ profiles' = profiles
              ELSE /\ CopiesIn(lookup, last'.calls) = 1
                   /\ Has(profiles', phone)
                   /\ last'.profile = <<profiles'[phone]>>
                   /\ fails => profiles'[phone] = EmptyProfile
                   /\ ~fails => profiles'[phone].name = gw.profile[phone].name]_vars

\* a lookup that failed while the gateway was out of reach, and a later request
\* that is given the stored empty profile although the gateway now has one
C9_Witness ==
    /\ last.op = "GetMessagePage"
    /\ last.jid = DirectA
    /\ ~last.hit
    /\ "profile" \in last.had
    /\ last.profile = <<EmptyProfile>>
    /\ gw = GatewayOne
    /\ BagToSet(last.calls) # {}

-----------------------------------------------------------------------------
(* The chat page over any chat list (SpecChats) *)

MaxChats == 3
MaxLimit == 2
MaxOffset == 1

\* the raw chats the gateway may list: the direct and the @lid chat of one contact
\* with differing times, an unmapped @lid chat and a group
ChatPool ==
    {Chat(DirectA, 1), Chat(DirectA, 3), Chat(LidA, 2), Chat(LidB, 2), Chat(GroupG, 2)}

RawChatLists == UNION {[1..n -> ChatPool] : n \in 0..MaxChats}
Directories == {DirectoryOne, <<>>}
Searches == {<<>>, <<"a", "l">>}

InitChats ==
    /\ InitCaches
    /\ now = 0
    /\ gw \in {[GatewayOne EXCEPT !.chats = c, !.contacts = d] :
                 c \in RawChatLists, d \in Directories}

NextChats ==
    /\ \E limit \in 1..MaxLimit, offset \in 0..MaxOffset, search \in Searches :
          GetChatPage(limit, offset, search, FALSE, gw.fx)
    /\ UNCHANGED steps

SpecChats == InitChats /\ [][NextChats]_vars

\* the items of the last response
Items == last.response[1].items

\* the canonical identity of a chat under the directory the request read: the
\* mapped direct identifier of a mapped @lid chat, the chat's own identifier
\* otherwise
CanonicalIdentity(jid) ==
    IF Contains(jid, SuffixLid) /\ Has(last.directory.lid_to_phone, jid)
    THEN last.directory.lid_to_phone[jid]
    ELSE jid

\* C1: no two rows of a chat page have the same canonical identity.
C1_RowsHaveDistinctIdentity ==
    (last.op = "GetChatPage" /\ last.response # <<>>) =>
        \A i, j \in 1..Len(Items) :
            i # j => CanonicalIdentity(Items[i].id) # CanonicalIdentity(Items[j].id)

ListsChatOf(jid) == \E k \in 1..Len(gw.chats) : gw.chats[k].remoteJid = jid

\* a page of two rows from a list that holds both the direct chat and the mapped
\* @lid chat of the contact: one row is the contact's, the other another chat's
C1_Witness ==
    /\ last.op = "GetChatPage"
    /\ last.response # <<>>
    /\ ListsChatOf(DirectA)
    /\ ListsChatOf(LidA)
    /\ Has(last.directory.lid_to_phone, LidA)
    /\ Len(Items) = 2
    /\ \E i \in 1..2 : CanonicalIdentity(Items[i].id) = DirectA

\* the later of two chats
Later(a, b) == IF ChatTimestamp(a)[1] > ChatTimestamp(b)[1] THEN a ELSE b

\* C2: when the gateway lists a direct chat and the @lid chat mapped to it, with
\* differing last-message times and in either order, the first page holds exactly
\* one row, and the row has the identifier, the preview and the time of the chat
\* with the later last message.
C2_LaterChatWins ==
    (/\ last.op = "GetChatPage" /\ last.response # <<>>
     /\ last.offset = 0 /\ last.had = {}
     /\ Len(gw.chats) = 2
     /\ {gw.chats[1].remoteJid, gw.chats[2].remoteJid} = {DirectA, LidA}
     /\ CanonicalIdentity(LidA) = DirectA
     /\ ChatTimestamp(gw.chats[1]) # ChatTimestamp(gw.chats[2]))
    => LET later == Later(gw.chats[1], gw.chats[2])
       IN  /\ Len(Items) = 1
           /\ Items[1].id = later.remoteJid
           /\ Items[1].last_message = LastMessagePreview(later).content
           /\ Items[1].last_message_time = ChatTimeStr(later, now, gw.tz)

\* C18: the rows of a chat page are newest first: no row is followed by a row
\* with a later last-message time.
C18_RowsNewestFirst ==
    (last.op = "GetChatPage" /\ last.response # <<>>) =>
        \A i, j \in 1..Len(Items) :
            i < j => ~StrLess(Items[i].last_message_time, Items[j].last_message_time)

\* a page of two rows whose chats the gateway lists oldest first
C18_Witness ==
    /\ last.op = "GetChatPage"
    /\ last.response # <<>>
    /\ Len(gw.chats) = 2
    /\ ChatTimestamp(gw.chats[1])[1] < ChatTimestamp(gw.chats[2])[1]
    /\ Len(Items) = 2
    /\ Items[1].id = gw.chats[2].remoteJid
    /\ StrLess(Items[2].last_message_time, Items[1].last_message_time)

\* the rows of the whole list for the data and the search term of the last
\* request: deduplicated, filtered and sorted, before the page is cut
AllRows ==
    ChatPage(gw.chats, last.directory, BannedUsers(gw.fx), FALSE, last.search,
             groupNames.data, groupPics.data, 0, Len(gw.chats), now, gw.tz).items

\* C19: the total of a chat page is the number of rows of the whole list, whatever
\* the offset and the limit, and the items are the rows offset+1 .. offset+limit
\* of that list.
C19_PageIsSliceOfAllRows ==
    (last.op = "GetChatPage" /\ last.response # <<>>) =>
        /\ last.response[1].total = Len(AllRows)
        /\ Items = Slice(AllRows, last.offset, last.offset + last.limit)

\* the second page of one row out of a list of three rows
C19_Witness ==
    /\ last.op = "GetChatPage"
    /\ last.response # <<>>
    /\ last.offset = 1
    /\ last.limit = 1
    /\ last.response[1].total = 3
    /\ Len(Items) = 1
    /\ Items[1] = AllRows[2]

-----------------------------------------------------------------------------
(* The merge of a chat's two message histories (SpecMsgs) *)

MaxMessages == 2

\* the messages of the contact: id and time; a message keeps both under either JID
MessagePool == {<<"a", 3>>, <<"b", 2>>, <<"c", 1>>}

RECURSIVE NewestFirst(_)
\* a set of messages as the gateway lists them, newest first
NewestFirst(ms) ==
    IF ms = {} THEN <<>>
    ELSE LET m == CHOOSE x \in ms : \A y \in ms : x[2] >= y[2]
         IN  <<m>> \o NewestFirst(ms \ {m})

RecordsOf(jid, ms) ==
    LET sorted == NewestFirst(ms)
    IN  [k \in 1..Len(sorted) |-> Message(jid, <<sorted[k][1]>>, sorted[k][2])]

MessageSets == {ms \in SUBSET MessagePool : Cardinality(ms) <= MaxMessages}

InitMsgs ==
    /\ InitCaches
    /\ now = 0
    /\ gw \in {[GatewayOne EXCEPT !.messages = (LidA :> Held(RecordsOf(LidA, p)))
                                              @@ (DirectA :> Held(RecordsOf(DirectA, a)))] :
                 p \in MessageSets, a \in MessageSets}

\* the chats whose page is requested: the mapped @lid chat (merged with the
\* records of the direct chat) and the direct chat (not merged)
MergeJids == {LidA, DirectA}

NextMsgs ==
    /\ \E jid \in MergeJids, limit \in 1..MaxLimit, force \in BOOLEAN :
          GetMessagePage(jid, limit, 1, force, gw.fx)
    /\ UNCHANGED steps

SpecMsgs == InitMsgs /\ [][NextMsgs]_vars

\* the ids of the records the gateway returns for page 1 of `jid`
PageIds(jid) ==
    LET records == PageOf(gw.messages[jid].records, last.limit, 1)
    IN  {records[k].key.id : k \in 1..Len(records)}

\* C3: page 1 of a mapped @lid chat, fetched from the gateway: when the primary
\* and the alternate records share an id and hold at most `limit` distinct ids,
\* every id of either set is the id of exactly one returned item.
C3_MergeKeepsEveryId ==
    (/\ last.op = "GetMessagePage" /\ ~last.hit /\ last.response # <<>>
     /\ last.jid = LidA /\ last.page = 1
     /\ CanonicalIdentity(LidA) = DirectA
     /\ PageIds(LidA) \cap PageIds(DirectA) # {}
     /\ Cardinality(PageIds(LidA) \cup PageIds(DirectA)) <= last.limit)
    => \A id \in PageIds(LidA) \cup PageIds(DirectA) :
          Cardinality({k \in 1..Len(Items) : Items[k].id = id}) = 1

\* C16: the total of a message page of a mapped @lid chat, page 1, is the total
\* the gateway reports for the chat's own identifier, whatever total it reports
\* for the alternate identifier.
C16_TotalIsPrimaryTotal ==
    (/\ last.op = "GetMessagePage" /\ ~last.hit /\ last.response # <<>>
     /\ last.jid = LidA /\ last.page = 1
     /\ CanonicalIdentity(LidA) = DirectA)
    => last.response[1].total = gw.messages[LidA].total

\* C17: the items of a message page are oldest first: no item is followed by an
\* item with an earlier timestamp.
C17_ItemsOldestFirst ==
    (last.op = "GetMessagePage" /\ last.response # <<>>) =>
        \A i, j \in 1..Len(Items) :
            i < j => ~StrLess(Items[j].timestamp, Items[i].timestamp)

\* a merged page of two items, one held under each identifier, the older first
C17_Witness ==
    /\ last.op = "GetMessagePage"
    /\ last.response # <<>>
    /\ last.jid = LidA
    /\ gw.messages[LidA].total = 1
    /\ gw.messages[DirectA].total = 1
    /\ Len(Items) = 2
    /\ StrLess(Items[1].timestamp, Items[2].timestamp)

-----------------------------------------------------------------------------
(* The @lid -> phone mapping over any contact directory (SpecContacts) *)

MaxContacts == 3

PhoneB == <<"2", "0", "2">>
DirectB == PhoneB \o <<SuffixDirect>>
PicUrlB == <<"h", "/", "fpB">>

\* two direct contacts, which may carry the same avatar, and the records of one
\* @lid contact with either avatar
ContactPool ==
    {Contact(DirectA, NameAli, PicUrlA), Contact(DirectB, NameAly, PicUrlA),
     Contact(DirectB, NameAly, PicUrlB), Contact(LidA, NameAli, PicUrlA),
     Contact(LidA, NameAli, PicUrlB)}

ContactLists == UNION {[1..n -> ContactPool] : n \in 0..MaxContacts}

InitContacts ==
    /\ InitCaches
    /\ now = 0
    /\ gw \in {[GatewayOne EXCEPT !.contacts = d] : d \in ContactLists}

NextContacts ==
    /\ GetChatPage(DefaultLimit, 0, <<>>, FALSE, gw.fx)
    /\ UNCHANGED steps

SpecContacts == InitContacts /\ [][NextContacts]_vars

\* the avatar fingerprint of record k of the gateway's contact list
Fingerprint(k) == PicKey(gw.contacts[k].profilePicUrl)

\* record k is a direct contact with the fingerprint `key`
DirectWith(k, key) ==
    /\ Contains(gw.contacts[k].remoteJid, SuffixDirect)
    /\ Fingerprint(k) = key

\* record k is an @lid contact whose fingerprint is that of some direct contact
LidMatch(k) ==
    /\ Contains(gw.contacts[k].remoteJid, SuffixLid)
    /\ \E d \in 1..Len(gw.contacts) : DirectWith(d, Fingerprint(k))

\* record k is the first matching record of its @lid contact
FirstLidMatch(k) ==
    /\ LidMatch(k)
    /\ \A e \in 1..(k - 1) :
          ~(LidMatch(e) /\ gw.contacts[e].remoteJid = gw.contacts[k].remoteJid)

\* C20: in the mapping built from the contact list, an @lid contact is mapped by
\* its first matching record, and to the first direct contact that has the
\* record's avatar fingerprint.
C20_FirstMatchWins ==
    (last.op = "GetChatPage" /\ last.response # <<>>) =>
        \A k \in 1..Len(gw.contacts) :
            FirstLidMatch(k) =>
                \E d \in 1..Len(gw.contacts) :
                    /\ DirectWith(d, Fingerprint(k))
                    /\ \A e \in 1..(d - 1) : ~DirectWith(e, Fingerprint(k))
                    /\ Get(last.directory.lid_to_phone, gw.contacts[k].remoteJid, <<>>)
                          = gw.contacts[d].remoteJid

-----------------------------------------------------------------------------
(* The requests against a failing gateway (SpecFail) *)

\* the gateway calls by what they fetch
FailKinds ==
    [contact_directory |-> {Call("findContacts", <<>>)},
     chat_list |-> {Call("findChats", <<>>)},
     recent_messages |-> {Call("findMessagesAll", <<>>)},
     message_page |-> {Call("findMessages", LidA), Call("findMessages", GroupG)},
     alternate_page |-> {Call("findMessages", DirectA)},
     owner_lookup |-> {Call("fetchInstances", <<>>)},
     group_subject |-> {Call("findGroupInfos", GroupG)},
     group_avatar |-> {Call("fetchProfilePictureUrl", GroupG)},
     participants |-> {Call("participants", GroupG)},
     contact_profile |-> {Call("fetchProfile", PhoneA), Call("fetchProfile", <<>>)}]

FailingSets == {UNION {FailKinds[k] : k \in ks} : ks \in SUBSET DOMAIN FailKinds}
FailModes == {"http_error", "timeout"}

InitFail ==
    /\ InitCaches
    /\ now = 0
    /\ gw \in {[GatewayOne EXCEPT !.fx = [failing |-> f, mode |-> m]] :
                 f \in FailingSets, m \in FailModes}

MaxRequests == 2

\* a request counted against the bound of the run
CountedRequest == steps < MaxRequests /\ steps' = steps + 1

NextFail ==
    \/ CountedRequest /\ GetChatPage(DefaultLimit, 0, <<>>, FALSE, gw.fx)
    \/ \E jid \in CacheJids :
          CountedRequest /\ GetMessagePage(jid, DefaultLimit, 1, TRUE, gw.fx)

SpecFail == InitFail /\ [][NextFail]_vars

\* C10: whichever gateway calls fail or time out, a chat-page or message-page
\* request ends with a response and never with an error.
C10_RequestsNeverFail ==
    last.op \in ReadOps => ~last.raised /\ last.response # <<>>

\* a message page of the @lid chat answered although every call failed: no items,
\* and the chat named by what is left of the fallback chain
C10_Witness ==
    /\ last.op = "GetMessagePage"
    /\ last.jid = LidA
    /\ gw.fx.failing = UNION {FailKinds[k] : k \in DOMAIN FailKinds}
    /\ gw.fx.mode = "timeout"
    /\ ~last.raised
    /\ last.response # <<>>
    /\ Items = <<>>
    /\ last.response[1].chat.name = clean_phone_number(LidA)

\* C13: transient failures are retried only for media retrieval: every gateway
\* request of a chat page or of a message page is attempted once, and its failure
\* leaves the page answered.
C13_OtherRequestsAttemptedOnce ==
    last.op \in ReadOps =>
        /\ ~last.raised
        /\ last.response # <<>>
        /\ \A c \in BagToSet(last.calls) : Request(ModeOf(last.fx, c.call, c.arg), <<>>).attempts = 1

-----------------------------------------------------------------------------
(* The media proxy against any gateway behaviour (SpecMedia) *)

MediaIds == {"m1"}

\* the base64 text the gateway holds for a message's media
MediaB64(message_id) ==
    IF message_id = "m1" THEN <<"a", "G", "k", "=">> ELSE <<"b", "2", "s", "=">>

Jpeg == <<"image/jpeg">>
NoData == [base64 |-> <<>>, mimetype |-> <<>>]
ConnectRefused == <<"Cannot", " ", "connect", " ", "to", " ", "host", " ", "[", "Connect", " ", "call", " ", "failed", "]">>
ServerDisconnected == <<"Server", " ", "disconnected">>
SessionClosed == <<"Session", " ", "is", " ", "closed">>

\* what the gateway can do with one get_media_base64 call: answer the media, answer
\* text that does not decode, answer without the text, answer an error status (the
\* media is gone), time out, refuse the connection, drop it, or fail otherwise
AttemptOutcomes(message_id) ==
    {[kind |-> "data", mode |-> "ok", message |-> <<>>, data |-> [base64 |-> MediaB64(message_id), mimetype |-> Jpeg]],
     [kind |-> "undecodable", mode |-> "ok", message |-> <<>>, data |-> [base64 |-> <<"a", "G", "k">>, mimetype |-> Jpeg]],
     [kind |-> "empty", mode |-> "ok", message |-> <<>>, data |-> [base64 |-> <<>>, mimetype |-> Jpeg]],
     [kind |-> "gone", mode |-> "http_error", message |-> <<>>, data |-> NoData],
     [kind |-> "timeout", mode |-> "timeout", message |-> <<>>, data |-> NoData],
     [kind |-> "refused", mode |-> "client_error", message |-> ConnectRefused, data |-> NoData],
     [kind |-> "disconnected", mode |-> "client_error", message |-> ServerDisconnected, data |-> NoData],
     [kind |-> "exception", mode |-> "exception", message |-> SessionClosed, data |-> NoData]}

TransientKinds == {"timeout", "refused", "disconnected"}

\* the gateway's behaviour over the calls of one request; what it would do after
\* it answered the media is never asked for
AttemptRuns(message_id) ==
    {outs \in [1..MediaMaxRetries -> AttemptOutcomes(message_id)] :
        \A i \in 1..(MediaMaxRetries - 1) : outs[i].kind = "data" => outs[i + 1].kind = "data"}

InitMedia ==
    /\ InitCaches
    /\ now = 0
    /\ gw = GatewayOne

NextMedia ==
    \/ \E message_id \in MediaIds :
          \E outs \in AttemptRuns(message_id) :
              GetMedia(message_id, DirectA, FALSE, outs) /\ UNCHANGED steps
    \/ ClearMediaCache /\ UNCHANGED steps

SpecMedia == InitMedia /\ [][NextMedia]_vars

MediaMiss == last.op = "GetMedia" /\ ~last.hit

GoneOutcome == MediaLoop(0, [i \in 1..MediaMaxRetries |-> CHOOSE out \in AttemptOutcomes("m1") : out.kind = "gone"], [NoMedia EXCEPT !.last_error = ErrMediaNotFound])

\* C12: a request whose fetch fails permanently ends unavailable with the
\* explanation that the media may have expired, and a request whose attempts
\* failed only transiently ends with an outcome that differs from it.
C12_PermanentDistinctFromTransient ==
    /\ GoneOutcome.status = 404
    /\ GoneOutcome.detail = ExpiredDetail
    /\ (MediaMiss /\ \A i \in 1..Len(last.media.results) : last.media.results[i] \in TransientKinds)
          => <<last.response.status, last.response.detail>> # <<GoneOutcome.status, GoneOutcome.detail>>

-----------------------------------------------------------------------------
(* Requests that overlap (SpecRace).  The handlers are coroutines on one     *)
(* event loop: a request runs alone from one await of a gateway call to the  *)
(* next, and other requests run while it waits.  A message-page request is   *)
(* cut at its awaits of the contact fetch, of the message fetch and of the   *)
(* header lookups; a chat-page request at the join of its prefetch tasks.    *)

MaxInflight == 2
Requests == 1..MaxInflight

\* the local state of a request that has not begun
NoRequest ==
    [op |-> "", pc |-> "", jid |-> <<>>, limit |-> 0, page |-> 0, current_time |-> 0,
     cc |-> [cache |-> EmptyContactsCache, map |-> NoContactsMap, calls |-> <<>>, raised |-> FALSE],
     contactsStored |-> 0, fm |-> <<>>, ch |-> <<>>, tasks |-> EmptyDict,
     response |-> <<>>, raised |-> FALSE, finished |-> 0]

\* how many requests have stored a contact directory, and how many have ended
ContactStores == Cardinality({r \in DOMAIN inflight : inflight[r].contactsStored > 0})
Finished == Cardinality({r \in DOMAIN inflight : inflight[r].pc = "done"})

\* the request record of a suspended message-page request
PageRequest(rec) ==
    [NoLast EXCEPT !.op = "GetMessagePage", !.jid = rec.jid, !.limit = rec.limit,
                   !.page = rec.page, !.fx = gw.fx, !.started = rec.current_time]

\* get_cached_contacts up to its await: the stored directory when it is fresh
ContactsRead(rec) ==
    IF ContactsFresh(contactsCache, rec.current_time)
    THEN [rec EXCEPT !.pc = "messages", !.cc = get_cached_contacts(contactsCache, rec.current_time, gw.fx, gw)]
    ELSE [rec EXCEPT !.pc = "contacts"]

\* a message-page request begins: a fresh cached page is served at once; otherwise
\* the request goes on to the contact directory and waits for the gateway
PageBegin(r, remote_jid, limit, page) ==
    /\ ~Has(inflight, r)
    /\ IF Has(messagesCache, MessagesCacheKey(remote_jid, limit, page)) /\ PageFresh(messagesCache[MessagesCacheKey(remote_jid, limit, page)], now)
       THEN GetMessagePage(remote_jid, limit, page, FALSE, gw.fx)
       ELSE /\ inflight' = Put(inflight, r, ContactsRead([NoRequest EXCEPT !.op = "GetMessagePage", !.jid = remote_jid, !.limit = limit, !.page = page, !.current_time = now]))
            /\ UNCHANGED <<now, gw, caches, storedAt, mediaCache, last>>

\* the gateway answers the request's contact fetch: the directory is built and
\* stored with the time the request read when it began
ContactsStored(r, cc) ==
    /\ contactsCache' = cc.cache
    /\ inflight' = [inflight EXCEPT ![r].pc = "messages", ![r].cc = cc, ![r].contactsStored = IF cc.raised THEN 0 ELSE ContactStores + 1]
    /\ UNCHANGED <<now, gw, messagesCache, groupNames, groupPics, profiles, storedAt, mediaCache, last>>

PageContacts(r) ==
    /\ Has(inflight, r)
    /\ inflight[r].pc = "contacts"
    /\ ContactsStored(r, StoreContacts(contactsCache, inflight[r].current_time, get_contacts(gw.fx, gw)))

\* the gateway answers the request's message fetch
PageMessages(r) ==
    /\ Has(inflight, r)
    /\ inflight[r].pc = "messages"
    /\ inflight' = [inflight EXCEPT ![r].pc = "header", ![r].fm = <<FetchMessages(inflight[r].jid, inflight[r].limit, inflight[r].page, inflight[r].cc.map, gw.fx, gw)>>]
    /\ UNCHANGED <<now, gw, caches, storedAt, mediaCache, last>>

\* the header lookups are answered: the response is built from the request's own
\* fetch, stored under the page's key and returned
PageEnd(r) ==
    /\ Has(inflight, r)
    /\ inflight[r].pc = "header"
    /\ MessagePageFetched(inflight[r].jid, MessagesCacheKey(inflight[r].jid, inflight[r].limit, inflight[r].page), clean_phone_number(inflight[r].jid), PageRequest(inflight[r]), gw.fx, [inflight[r].cc EXCEPT !.cache = contactsCache], inflight[r].fm[1])
    /\ inflight' = [inflight EXCEPT ![r].pc = "done", ![r].response = last'.response, ![r].raised = last'.raised, ![r].finished = Finished + 1]
    /\ UNCHANGED <<now, gw, groupPics, mediaCache>>

\* the prefetch tasks that wait for the gateway: get_group_name and
\* get_group_profile_pic of every group to fetch whose entry is not cached (a call
\* that finds its entry cached returns at once)
PrefetchTasks(jids) ==
    [t \in {<<"name", j>> : j \in {x \in jids : ~Has(groupNames.data, x)}} \cup {<<"pic", j>> : j \in {x \in jids : ~Has(groupPics.data, x)}} |-> "awaiting"]

\* the gateway call of a prefetch task
TaskCall(t) == Call(IF t[1] = "name" THEN "findGroupInfos" ELSE "fetchProfilePictureUrl", t[2])

\* the join resumes the page at the first task that failed
JoinedAtFirstFailure(tasks) ==
    \/ \A t \in DOMAIN tasks : tasks[t] # "awaiting"
    \/ \E t \in DOMAIN tasks : tasks[t] = "failed"

\* asyncio.gather(..., return_exceptions=True): the page resumes when every task
\* has finished, whether it succeeded or not
Joined(tasks) == \A t \in DOMAIN tasks : tasks[t] # "awaiting"

\* the chat-page request with its directory and chat list at hand starts the prefetch
ChatPrefetching(r, cc, ch) ==
    /\ contactsCache' = cc.cache
    /\ inflight' = Put(inflight, r, [NoRequest EXCEPT !.op = "GetChatPage", !.pc = "prefetch", !.current_time = now, !.cc = cc, !.ch = <<ch>>, !.contactsStored = IF cc.calls # <<>> THEN ContactStores + 1 ELSE 0, !.tasks = PrefetchTasks(GroupJidsToFetch(ch.value, groupNames.data, groupPics.data))])
    /\ UNCHANGED <<now, gw, messagesCache, groupNames, groupPics, profiles, storedAt, mediaCache, last>>

\* a request that fails before the prefetch ends there
ChatBegun(r, cc, ch) ==
    IF cc.raised \/ ch.raised \/ LatestPass(ch.value, 1, cc.map.lid_to_phone, [latest |-> EmptyDict, raised |-> FALSE]).raised
    THEN GetChatPage(DefaultLimit, 0, <<>>, FALSE, gw.fx)
    ELSE ChatPrefetching(r, cc, ch)

\* a chat-page request begins: the contact directory and the chat list are read
ChatBegin(r) ==
    /\ ~Has(inflight, r)
    /\ ChatBegun(r, get_cached_contacts(contactsCache, now, gw.fx, gw), get_chats(gw.fx, gw, ChatsFetchLimit))

\* get_group_name after its await: a subject is stored, a failure is swallowed
NameTaskEnds(r, t, subject) ==
    /\ groupNames' = IF subject # <<>> THEN [groupNames EXCEPT !.data = Put(groupNames.data, t[2], subject)] ELSE groupNames
    /\ storedAt' = [storedAt EXCEPT !.names = Stamp(storedAt.names, groupNames.data, groupNames'.data, now)]
    /\ inflight' = [inflight EXCEPT ![r].tasks[t] = IF subject # <<>> THEN "done" ELSE "failed"]
    /\ UNCHANGED groupPics

\* get_group_profile_pic after its await: the URL, or None after a failure, is stored
PicTaskEnds(r, t, pic_url) ==
    /\ groupPics' = [groupPics EXCEPT !.data = Put(groupPics.data, t[2], pic_url)]
    /\ storedAt' = [storedAt EXCEPT !.pics = Stamp(storedAt.pics, groupPics.data, groupPics'.data, now)]
    /\ inflight' = [inflight EXCEPT ![r].tasks[t] = IF ModeOf(gw.fx, "fetchProfilePictureUrl", t[2]) = "ok" THEN "done" ELSE "failed"]
    /\ UNCHANGED groupNames

\* the gateway answers one prefetch task of the request
TaskAnswer(r, t) ==
    /\ Has(inflight, r)
    /\ t \in DOMAIN inflight[r].tasks
    /\ inflight[r].tasks[t] = "awaiting"
    /\ IF t[1] = "name" THEN NameTaskEnds(r, t, FetchedGroupSubject(t[2], gw.fx, gw))
       ELSE PicTaskEnds(r, t, FetchedGroupPic(t[2], gw.fx, gw))
    /\ UNCHANGED <<now, gw, contactsCache, messagesCache, profiles, mediaCache, last>>

\* the prefetch is joined: the display names are resolved and the page returned
ChatEnd(r) ==
    /\ Has(inflight, r)
    /\ inflight[r].pc = "prefetch"
    /\ Joined(inflight[r].tasks)
    /\ ChatPageBuild(DefaultLimit, 0, <<>>, FALSE, gw.fx, [inflight[r].cc EXCEPT !.cache = contactsCache], inflight[r].ch[1], SeqToBag(inflight[r].cc.calls) (+) SeqToBag(inflight[r].ch[1].calls) (+) SetToBag({TaskCall(t) : t \in DOMAIN inflight[r].tasks}), groupNames.data, groupPics.data)
    /\ inflight' = [inflight EXCEPT ![r].pc = "done", ![r].response = last'.response, ![r].raised = last'.raised, ![r].finished = Finished + 1]

RaceJids == {LidA}

\* the gateway that times out on the subject of the group
GatewaySubjectDown ==
    [GatewayOne EXCEPT !.fx = [failing |-> {Call("findGroupInfos", GroupG)}, mode |-> "timeout"]]

RaceGateways == {GatewayOne, GatewayTwo, GatewaySubjectDown}

\* the gateway's data or its reachability changes while requests wait
GatewayChanges ==
    /\ \E g \in RaceGateways : g # gw /\ gw' = g
    /\ UNCHANGED <<now, caches, storedAt, mediaCache, inflight, last>>

InitRace ==
    /\ InitCaches
    /\ now = 0
    /\ gw \in RaceGateways

NextRace ==
    \/ \E r \in Requests, jid \in RaceJids : PageBegin(r, jid, DefaultLimit, 1) /\ UNCHANGED steps
    \/ \E r \in Requests : PageContacts(r) /\ UNCHANGED steps
    \/ \E r \in Requests : PageMessages(r) /\ UNCHANGED steps
    \/ \E r \in Requests : PageEnd(r) /\ UNCHANGED steps
    \/ \E r \in Requests : ChatBegin(r) /\ UNCHANGED steps
    \/ \E r \in Requests, t \in {"name", "pic"} \X {GroupG} : TaskAnswer(r, t) /\ UNCHANGED steps
    \/ \E r \in Requests : ChatEnd(r) /\ UNCHANGED steps
    \/ GatewayChanges /\ UNCHANGED steps

SpecRace == InitRace /\ [][NextRace]_vars

PageRequests == {r \in DOMAIN inflight : inflight[r].op = "GetMessagePage"}

\* the requests that have stored a page under the key of request r
StoredPage(r) ==
    {x \in PageRequests : /\ inflight[x].pc = "done"
                          /\ ~inflight[x].raised
                          /\ inflight[x].jid = inflight[r].jid
                          /\ inflight[x].limit = inflight[r].limit
                          /\ inflight[x].page = inflight[r].page}

\* C14: of the requests that miss the same cache key, each makes exactly one fetch
\* of its own (one findContacts for the directory, one findMessages of the page's
\* identifier), and the cache entry is the complete result of the last request
\* that stored: the directory that request built, the response it returned.
C14_OneFetchEachLastStoreWins ==
    \A r \in DOMAIN inflight :
        /\ inflight[r].contactsStored > 0 => inflight[r].cc.calls = <<Call("findContacts", <<>>)>>
        /\ (inflight[r].contactsStored > 0 /\ inflight[r].contactsStored = ContactStores)
              => contactsCache.data = inflight[r].cc.map
        /\ (r \in PageRequests /\ inflight[r].pc \in {"header", "done"})
              => Cardinality({i \in 1..Len(inflight[r].fm[1].calls) : inflight[r].fm[1].calls[i] = Call("findMessages", inflight[r].jid)}) = 1
        /\ (r \in StoredPage(r) /\ \A x \in StoredPage(r) : inflight[x].finished <= inflight[r].finished)
              => /\ Has(messagesCache, MessagesCacheKey(inflight[r].jid, inflight[r].limit, inflight[r].page))
                 /\ messagesCache[MessagesCacheKey(inflight[r].jid, inflight[r].limit, inflight[r].page)] = [data |-> inflight[r].response[1], timestamp |-> inflight[r].current_time]

\* two requests missed the directory and the same page together, fetched different
\* data, and the second to store has replaced what the first stored
C14_Witness ==
    /\ PageRequests = Requests
    /\ \A r \in Requests : inflight[r].pc = "done" /\ inflight[r].contactsStored > 0
    /\ inflight[1].jid = inflight[2].jid
    /\ inflight[1].response # inflight[2].response
    /\ inflight[1].cc.map # inflight[2].cc.map
    /\ inflight[1].finished = 2
    /\ inflight[1].contactsStored = 1
    /\ contactsCache.data = inflight[2].cc.map
    /\ messagesCache[MessagesCacheKey(LidA, DefaultLimit, 1)].data = inflight[1].response[1]

ChatRequests == {r \in DOMAIN inflight : inflight[r].op = "GetChatPage"}

\* C15: when a chat page has resolved its display names, every prefetch task of the
\* request has finished, successfully or not; a task that failed has left its
\* sibling to store what it fetched, and the page is answered.
C15_PrefetchJoinedBeforeNames ==
    \A r \in ChatRequests :
        inflight[r].pc = "done" =>
            /\ \A t \in DOMAIN inflight[r].tasks : inflight[r].tasks[t] \in {"done", "failed"}
            /\ \A t \in DOMAIN inflight[r].tasks :
                  inflight[r].tasks[t] = "done" =>
                      Has(IF t[1] = "name" THEN groupNames.data ELSE groupPics.data, t[2])
            /\ ~inflight[r].raised
            /\ inflight[r].response # <<>>

\* the subject task failed, the avatar task of the same group stored its URL, and
\* the page was answered with the group's row
C15_Witness ==
    /\ 1 \in ChatRequests
    /\ inflight[1].pc = "done"
    /\ DOMAIN inflight[1].tasks = {<<"name", GroupG>>, <<"pic", GroupG>>}
    /\ inflight[1].tasks[<<"name", GroupG>>] = "failed"
    /\ inflight[1].tasks[<<"pic", GroupG>>] = "done"
    /\ ~Has(groupNames.data, GroupG)
    /\ groupPics.data[GroupG] # <<>>
    /\ ~inflight[1].raised
    /\ \E i \in 1..Len(inflight[1].response[1].items) : inflight[1].response[1].items[i].is_group

-----------------------------------------------------------------------------
(* SpecIds: clean_phone_number on its own, applied once and then to its own result *)

MaxIdLen == 17

\* the digit of position i of a number: 1, 2, ..., 9, 0, 1, ...
DigitAt(i) == IntToStr(i % 10)

RECURSIVE DigitRun(_, _)
\* the digits of positions i..n
DigitRun(i, n) == IF i > n THEN <<>> ELSE DigitAt(i) \o DigitRun(i + 1, n)

IdLeads == {<<"1", "2", "0">>, <<"2", "0", "1">>}

\* the part after the number: nothing, the creation time of an old group, one digit
IdTails == {<<>>, <<"-">> \o DigitRun(1, 10), <<"-", "7">>}

IdSuffixes == {<<>>, <<SuffixDirect>>, <<SuffixGroup>>, <<SuffixLid>>}

\* raw identifiers: a number of 3..MaxIdLen digits, a tail and a suffix
RawIds ==
    {lead \o DigitRun(4, n) \o tail \o suffix :
        lead \in IdLeads, n \in 3..MaxIdLen, tail \in IdTails, suffix \in IdSuffixes}

\* phone = clean_phone_number(jid)
Normalize ==
    /\ last.op = "raw"
    /\ last' = [last EXCEPT !.op = "clean_phone_number",
                            !.response = <<clean_phone_number(last.jid)>>]
    /\ UNCHANGED <<now, gw, caches, mediaCache, inflight, storedAt, steps>>

\* clean_phone_number(phone), on a value that was normalized before
NormalizeAgain ==
    /\ last.op = "clean_phone_number"
    /\ Len(last.response) = 1
    /\ last' = [last EXCEPT !.response = Append(@, clean_phone_number(last.response[1]))]
    /\ UNCHANGED <<now, gw, caches, mediaCache, inflight, storedAt, steps>>

\* nothing is cached; the request holds a raw identifier
InitIds ==
    /\ contactsCache = EmptyContactsCache
    /\ messagesCache = EmptyDict
    /\ groupNames = EmptyGroupNames
    /\ groupPics = EmptyGroupPics
    /\ profiles = EmptyDict
    /\ storedAt = [names |-> EmptyDict, pics |-> EmptyDict]
    /\ mediaCache = NoMediaCache
    /\ inflight = EmptyDict
    /\ steps = 0
    /\ now = 0
    /\ gw = GatewayOne
    /\ \E raw \in RawIds : last = [NoLast EXCEPT !.op = "raw", !.jid = raw]

NextIds ==
    \/ Normalize
    \/ NormalizeAgain

SpecIds == InitIds /\ [][NextIds]_vars

Normalized == last.op = "clean_phone_number"

\* C24: normalizing the result of normalizing a raw identifier returns that result
\* unchanged.
C24_NormalizeIdempotent ==
    (Normalized /\ Len(last.response) = 2) => last.response[2] = last.response[1]

\* a 15-digit direct identifier was cut to its last 12 digits and normalized again
C24_Witness ==
    /\ Normalized
    /\ Len(last.response) = 2
    /\ last.jid = <<"2", "0", "1">> \o DigitRun(4, 15) \o <<SuffixDirect>>
    /\ last.response[2] = DigitRun(4, 15)

DigitPart(jid) == StripSuffixes(jid)

InternalKind(jid) == Contains(jid, SuffixLid)

\* C25: an internal-kind identifier whose digit part is 16 digits long normalizes to
\* the empty string, whatever its digits are.
C25_Internal16IsEmpty ==
    (Normalized /\ InternalKind(last.jid) /\ IsDigit(DigitPart(last.jid))
        /\ Len(DigitPart(last.jid)) = 16)
    => last.response[1] = <<>>

\* C26: a dash-separated identifier of direct or group kind that is longer than 13
\* characters without its suffix and whose part before the first dash has at most 13
\* digits normalizes to that part.
C26_DashedToLeadingSegment ==
    (Normalized /\ ~InternalKind(last.jid) /\ Contains(last.jid, "-")
        /\ Len(DigitPart(last.jid)) > 13
        /\ Len(SplitFirst(DigitPart(last.jid), "-")) <= 13)
    => last.response[1] = SplitFirst(DigitPart(last.jid), "-")

\* "201141689099-1234567890@g.us", an old group id, became "201141689099"
C26_Witness ==
    /\ Normalized
    /\ last.jid = <<"2", "0", "1">> \o DigitRun(4, 12) \o <<"-">> \o DigitRun(1, 10)
                      \o <<SuffixGroup>>
    /\ last.response[1] = <<"2", "0", "1">> \o DigitRun(4, 12)

-----------------------------------------------------------------------------
(* SpecNames: the chat page of one individual chat, over its name fields *)

NameYou == <<"Y", "o", "u">>

\* the values of a name field: absent, a self-reference, a name of its own
NameField(own) == {<<>>, NameYou, own}

NameJids == {DirectA, LidB}

\* one individual chat with every combination of its name fields
NameChats ==
    {[Chat(jid, 1) EXCEPT !.notify = n, !.verifiedName = v, !.pushName = p, !.name = c,
                          !.lastMessage = <<[@[1] EXCEPT !.pushName = m]>>] :
        jid \in NameJids, n \in NameField(<<"N">>), v \in NameField(<<"V">>),
        p \in NameField(<<"P">>), c \in NameField(<<"C">>), m \in NameField(<<"M">>)}

\* the directory: without the contact, or with it under a self-reference or a name
NameDirectories(jid) == {<<>>} \cup {<<Contact(jid, d, <<>>)>> : d \in {NameYou, NameAli}}

InitNames ==
    /\ InitCaches
    /\ now = 0
    /\ gw \in {[GatewayOne EXCEPT !.chats = <<chat>>, !.contacts = d] :
                 chat \in NameChats, d \in UNION {NameDirectories(j) : j \in NameJids}}

NextNames ==
    /\ GetChatPage(DefaultLimit, 0, <<>>, FALSE, gw.fx)
    /\ UNCHANGED steps

SpecNames == InitNames /\ [][NextNames]_vars

\* the candidates of the chat's name, in the order of the chain
NameCandidates(chat, directory) ==
    <<Get(directory.entries, chat.remoteJid, NoContact).name, chat.notify,
      chat.verifiedName, chat.pushName, chat.name, chat.lastMessage[1].pushName,
      clean_phone_number(chat.remoteJid), <<"+">> \o BeforeAt(chat.remoteJid)>>

GoodName(name) == name # <<>> /\ name \notin SelfNames

FirstGoodName(candidates) ==
    candidates[CHOOSE i \in 1..Len(candidates) :
                   /\ GoodName(candidates[i])
                   /\ \A j \in 1..(i - 1) : ~GoodName(candidates[j])]

NamesServed == last.op = "GetChatPage" /\ ~last.raised /\ Len(Items) = 1

\* C23: the display name of an individual chat is the first candidate, in the order
\* contact-directory name, notify name, verified name, push name, chat name, last
\* message's push name, normalized phone, "+" and the raw identifier, that is neither
\* empty nor a self-reference.
C23_FirstGoodCandidate ==
    NamesServed => Items[1].name = FirstGoodName(NameCandidates(gw.chats[1], last.directory))

\* a chat whose only name field is the push name "You", not in the directory, is
\* shown under its normalized phone
C23_Witness ==
    /\ NamesServed
    /\ gw.contacts = <<>>
    /\ gw.chats[1] = [Chat(DirectA, 1) EXCEPT !.pushName = NameYou]
    /\ Items[1].name = PhoneA

-----------------------------------------------------------------------------
(* The frame of the webhook (Spec) *)

\* the request handled in this step is a message webhook that names a chat
WebhookHandled ==
    Handled /\ last'.op = "EvolutionWebhook" /\ last'.event \in MessageEvents
        /\ last'.jid # <<>>

\* C28: handling a MESSAGES_UPSERT, MESSAGES_UPDATE or SEND_MESSAGE webhook for chat C
\* leaves the message-page cache entries of every other chat, the contact directory,
\* the group subjects, the group avatars and the contact profiles as they were.
C28_WebhookFrame ==
    [][WebhookHandled =>
          /\ \A k \in DOMAIN messagesCache :
                PageChat(messagesCache[k]) # last'.jid
                    => (Has(messagesCache', k) /\ messagesCache'[k] = messagesCache[k])
          /\ contactsCache' = contactsCache
          /\ groupNames' = groupNames
          /\ groupPics' = groupPics
          /\ profiles' = profiles]_vars

\* a message webhook for the @lid chat was handled while the page of the direct chat,
\* the directory, the group subjects and avatars and a profile were cached
C28_Witness ==
    /\ last.op = "EvolutionWebhook"
    /\ last.event \in MessageEvents
    /\ last.jid = LidA
    /\ \E k \in DOMAIN messagesCache : PageChat(messagesCache[k]) = DirectA
    /\ DictTruthy(contactsCache.data)
    /\ DOMAIN groupNames.data # {}
    /\ DOMAIN groupPics.data # {}
    /\ DOMAIN profiles # {}

-----------------------------------------------------------------------------
(* SpecSenders: the message page of a group, over the sender fields of a message *)

NamePam == <<"P", "a", "m">>
NameBob == <<"B", "o", "b">>
NameRob == <<"R", "o", "b">>

\* names that are numbers of 11 digits
NumberPush == DigitRun(1, 11)
NumberContact == DigitRun(2, 12)
NumberRoster == DigitRun(3, 13)

\* a message sent to the group by somebody else
GroupMessage(participant, participant_alt, push_name) ==
    [Message(GroupG, <<"a">>, 1) EXCEPT !.key.participant = participant,
                                        !.key.participantAlt = participant_alt,
                                        !.pushName = push_name]

GroupMessages ==
    {GroupMessage(p, q, n) : p \in {<<>>, LidA}, q \in {<<>>, DirectA, LidB},
                             n \in {<<>>, NameYou, NamePam, NumberPush}}

\* the roster lists the @lid participant under another phone than the messages do
RosterEntryOf(name) == [id |-> LidA, phoneNumber |-> DirectB, imgUrl |-> PicUrlB, name |-> name]

Rosters == {<<>>} \cup {<<RosterEntryOf(name)>> : name \in {<<>>, NameRob, NumberRoster}}

SenderDirectories ==
    {<<>>, <<Contact(DirectA, NameAli, PicUrlA)>>, <<Contact(DirectA, NumberContact, <<>>)>>,
     <<Contact(DirectB, NameBob, <<>>)>>}

InitSenders ==
    /\ InitCaches
    /\ now = 0
    /\ gw \in {[GatewayOne EXCEPT !.messages = (GroupG :> Held(<<m>>)),
                                  !.participants = (GroupG :> r),
                                  !.contacts = d] :
                 m \in GroupMessages, r \in Rosters, d \in SenderDirectories}

NextSenders ==
    /\ GetMessagePage(GroupG, DefaultLimit, 1, FALSE, gw.fx)
    /\ UNCHANGED steps

SpecSenders == InitSenders /\ [][NextSenders]_vars

\* the page of the group was built from the gateway's message
SenderServed ==
    last.op = "GetMessagePage" /\ ~last.raised /\ Len(Items) = 1 /\ ~Items[1].from_me

\* the key of the message the gateway holds
HeldKey == gw.messages[GroupG].records[1].key

\* the names the directory and the roster hold for the phone the roster maps to
MappedNames == {NameBob, NameRob, NumberRoster, PhoneB}

\* C21: the sender of a message sent to a group by somebody else, whose key carries a
\* participantAlt that is a direct identifier, is that identifier, and the sender's
\* name is none of the names held for the phone that the roster or the mapping gives
\* for the participant.
C21_EmbeddedAlternateWins ==
    (SenderServed /\ Contains(HeldKey.participantAlt, SuffixDirect))
    => /\ Items[1].sender_jid = HeldKey.participantAlt
       /\ Items[1].sender_name \notin MappedNames

\* the roster maps the participant to another phone, under a name, and the message
\* without pushName is shown under the phone of its own participantAlt
C21_Witness ==
    /\ SenderServed
    /\ HeldKey.participant = LidA
    /\ HeldKey.participantAlt = DirectA
    /\ gw.participants[GroupG] = <<RosterEntryOf(NameRob)>>
    /\ gw.contacts = <<Contact(DirectB, NameBob, <<>>)>>
    /\ Items[1].sender_jid = DirectA
    /\ Items[1].sender_name = PhoneA

\* C22: the sender name of a message sent to a group by somebody else is never a
\* number of more than 10 digits, unless it is the sender's phone number.
C22_NoLongNumericName ==
    (SenderServed /\ IsDigit(Items[1].sender_name) /\ Len(Items[1].sender_name) > 10)
    => Items[1].sender_name = clean_phone_number(Items[1].sender_jid)

-----------------------------------------------------------------------------
(* SpecMentions: the message page of a group, over the text of a message *)

MaxPieces == 3

\* an @lid participant whose number has 12 digits
LidLong == DigitRun(1, 12) \o <<SuffixLid>>

\* the pieces of a text: two words, a mention of 12 digits, and mentions of 16 and of
\* 17 digits, the first of which is the beginning of the second
TextPieces ==
    {<<"h", "e", "l", "l", "o">>, <<"f", "r", "i", "e", "n", "d">>,
     <<"@">> \o DigitRun(1, 12), <<"@">> \o DigitRun(1, 16), <<"@">> \o DigitRun(1, 17)}

RECURSIVE JoinPieces(_)
\* " ".join(pieces)
JoinPieces(pieces) ==
    IF Len(pieces) = 0 THEN <<>>
    ELSE IF Len(pieces) = 1 THEN pieces[1]
    ELSE pieces[1] \o <<" ">> \o JoinPieces(Tail(pieces))

Texts == {JoinPieces(ps) : ps \in UNION {[1..n -> TextPieces] : n \in 1..MaxPieces}}

\* a text message sent to the group by a participant
TextMessage(text) ==
    [GroupMessage(LidA, DirectA, NamePam) EXCEPT !.message = Payload(text)]

\* the roster knows the mentioned 12-digit participant, or nobody
MentionRosters ==
    {<<>>, <<[id |-> LidLong, phoneNumber |-> DirectA, imgUrl |-> <<>>, name |-> <<>>]>>}

InitMentions ==
    /\ InitCaches
    /\ now = 0
    /\ gw \in {[GatewayOne EXCEPT !.messages = (GroupG :> Held(<<TextMessage(text)>>)),
                                  !.participants = (GroupG :> r)] :
                 text \in Texts, r \in MentionRosters}

NextMentions ==
    /\ GetMessagePage(GroupG, DefaultLimit, 1, FALSE, gw.fx)
    /\ UNCHANGED steps

SpecMentions == InitMentions /\ [][NextMentions]_vars

\* the text of the message the gateway holds
HeldText == gw.messages[GroupG].records[1].message.conversation

RECURSIVE LongMentionsReplaced(_, _)
\* the text from position i on, each mention of more than 15 digits replaced by "@"
\* and the placeholder, everything else kept
LongMentionsReplaced(content, i) ==
    IF i > Len(content) THEN <<>>
    ELSE IF content[i] = "@" /\ DigitRunLen(content, i + 1) > 15
         THEN <<"@">> \o ParticipantLabel
              \o LongMentionsReplaced(content, i + 1 + DigitRunLen(content, i + 1))
    ELSE <<content[i]>> \o LongMentionsReplaced(content, i + 1)

\* C27: in the text of a returned message each mention of more than 15 digits is
\* replaced by "@" and the participant placeholder, and the rest of the text is
\* unchanged (the texts are those no mention of which the roster resolves).
C27_LongMentionsReplaced ==
    (last.op = "GetMessagePage" /\ ~last.raised /\ Len(Items) = 1
        /\ gw.participants[GroupG] = <<>>)
    => Items[1].content = LongMentionsReplaced(HeldText, 1)

-----------------------------------------------------------------------------
(* SpecPages: message pages over what the gateway holds under both identifiers *)

MaxHeld == 2
MaxPageRequests == 2

\* the records of a contact under `jid`: two dated ones and one without timestamp
HeldPool(jid) ==
    {Message(jid, <<"a">>, 3), Message(jid, <<"b">>, 2),
     [Message(jid, <<"n">>, 1) EXCEPT !.messageTimestamp = <<>>]}

\* the time by which the gateway lists a record; a record without timestamp is last
ListedAt(msg) == IF msg.messageTimestamp = <<>> THEN 0 ELSE msg.messageTimestamp[1]

\* the lists the gateway may hold: newest first, an id possibly twice
HeldLists(jid) ==
    {s \in UNION {[1..n -> HeldPool(jid)] : n \in 0..MaxHeld} :
        \A i \in 1..(Len(s) - 1) : ListedAt(s[i]) >= ListedAt(s[i + 1])}

InitPages ==
    /\ InitCaches
    /\ now = 0
    /\ gw \in {[GatewayOne EXCEPT !.messages = (LidA :> Held(p)) @@ (DirectA :> Held(a)),
                                  !.contacts = d] :
                 p \in HeldLists(LidA), a \in HeldLists(DirectA), d \in Directories}

NextPages ==
    /\ steps < MaxPageRequests
    /\ steps' = steps + 1
    /\ \E jid \in MergeJids, limit \in 1..MaxLimit, page \in Pages :
          GetMessagePage(jid, limit, page, FALSE, gw.fx)

SpecPages == InitPages /\ [][NextPages]_vars

\* the last request built its page from the gateway
PageBuilt == last.op = "GetMessagePage" /\ ~last.hit /\ ~last.raised /\ last.response # <<>>

\* the identifiers whose messages the last request fetched
FetchedJids == {c.arg : c \in {x \in BagToSet(last.calls) : x.call = "findMessages"}}

\* C29: a message page is built from the messages of the chat's own identifier and,
\* exactly when the chat is an @lid chat with a mapped direct identifier and the page
\* is 1, from those of the direct identifier too; it never holds more than `limit`
\* items.
C29_AlternateOnFirstPageCutToLimit ==
    PageBuilt =>
        /\ FetchedJids =
              IF Contains(last.jid, SuffixLid) /\ CanonicalIdentity(last.jid) # last.jid
                 /\ last.page = 1
              THEN {last.jid, CanonicalIdentity(last.jid)}
              ELSE {last.jid}
        /\ Len(Items) <= last.limit

\* the records the last request ran its message loop over
Fetched == FetchMessages(last.jid, last.limit, last.page, last.directory, last.fx, gw).records

\* the first record of `records` with the id
FirstWithId(records, id) ==
    records[CHOOSE i \in 1..Len(records) :
                /\ records[i].key.id = id
                /\ \A j \in 1..(i - 1) : records[j].key.id # id]

\* C30: no message page holds two items with the same id, and the item of an id is
\* made from the first record with that id in the order of the fetched records.
C30_FirstOccurrenceOfEachId ==
    (last.op = "GetMessagePage" /\ last.response # <<>>) =>
        /\ \A i, j \in 1..Len(Items) : Items[i].id = Items[j].id => i = j
        /\ PageBuilt =>
              \A i \in 1..Len(Items) :
                  /\ \E k \in 1..Len(Fetched) : Fetched[k].key.id = Items[i].id
                  /\ Items[i].remote_jid = FirstWithId(Fetched, Items[i].id).key.remoteJid

\* page 1 of the mapped @lid chat: both identifiers hold the id "a", and the one item
\* of that id is the record of the @lid identifier, which comes first
C30_Witness ==
    /\ PageBuilt
    /\ last.jid = LidA
    /\ last.limit = 2
    /\ Len(Fetched) = 2
    /\ Fetched[1].key.id = <<"a">> /\ Fetched[1].key.remoteJid = LidA
    /\ Fetched[2].key.id = <<"a">> /\ Fetched[2].key.remoteJid = DirectA
    /\ Len(Items) = 1
    /\ Items[1].remote_jid = LidA

-----------------------------------------------------------------------------
(* SpecDirection: message pages over the raw direction flag, the id and the owner *)

\* message ids: two of the owner's devices, and three that only resemble them
DirectionIds ==
    {<<"3", "A", "1">>, <<"3", "E", "B", "1">>, <<"3", "E", "1">>, <<"A", "3", "A">>, <<"a">>}

DirectionJids == {LidA, DirectA, GroupG}

\* the same message under each identifier
DirectionMessages(id, from_me) ==
    [jid \in DirectionJids |->
        Held(<<[Message(jid, id, 1) EXCEPT !.key.fromMe = from_me]>>)]

\* the owner lookup answers, answers without owner, or fails
OwnerFx == {NoFx} \cup {[failing |-> {Call("fetchInstances", <<>>)}, mode |-> m] : m \in FailModes}

InitDirection ==
    /\ InitCaches
    /\ now = 0
    /\ gw \in {[GatewayOne EXCEPT !.messages = DirectionMessages(id, from_me),
                                  !.ownerJid = owner, !.fx = fx] :
                 id \in DirectionIds, from_me \in BOOLEAN,
                 owner \in {<<>>, PhoneOwner \o <<SuffixDirect>>}, fx \in OwnerFx}

NextDirection ==
    /\ \E jid \in DirectionJids : GetMessagePage(jid, DefaultLimit, 1, TRUE, gw.fx)
    /\ UNCHANGED steps

SpecDirection == InitDirection /\ [][NextDirection]_vars

\* the raw key of the message held under the requested identifier
RawKey == gw.messages[last.jid].records[1].key

\* the owner lookup of the request gave an owner identifier
OwnerObtained == gw.ownerJid # <<>> /\ Call("fetchInstances", <<>>) \notin gw.fx.failing

OwnDeviceId(id) == FirstN(id, 2) = <<"3", "A">> \/ FirstN(id, 3) = <<"3", "E", "B">>

DirectionServed == last.op = "GetMessagePage" /\ ~last.raised /\ Len(Items) = 1

\* C31: a message is reported outbound when its raw fromMe flag is true; when the
\* flag is false, exactly when the chat is an @lid chat, the owner identifier was
\* obtained and the message id starts with "3A" or "3EB".
C31_DirectionRule ==
    DirectionServed =>
        (Items[1].from_me <=>
            (RawKey.fromMe \/ (Contains(last.jid, SuffixLid) /\ OwnerObtained
                               /\ OwnDeviceId(RawKey.id))))

\* a message of the @lid chat whose raw flag is false and whose id starts with "3EB"
\* is reported outbound, the owner being known
C31_Witness ==
    /\ DirectionServed
    /\ last.jid = LidA
    /\ ~RawKey.fromMe
    /\ RawKey.id = <<"3", "E", "B", "1">>
    /\ OwnerObtained
    /\ Items[1].from_me

-----------------------------------------------------------------------------
(* SpecFilters: the chat page over empty, unread, pseudo and null-time chats *)

StatusJid == <<"status", "@", "broadcast">>
BroadcastJid == <<"5", "@", "broadcast">>

\* a raw chat without last message, `unread` messages unread
NoLastChat(jid, unread) ==
    [Chat(jid, 0) EXCEPT !.lastMessage = <<>>, !.unreadCount = unread]

\* a raw chat whose last message has a null timestamp
NullTimeChat(jid) ==
    [Chat(jid, 0) EXCEPT !.lastMessage = <<[@[1] EXCEPT !.messageTimestamp = <<>>]>>]

FilterPool ==
    {Chat(DirectA, 1), Chat(LidA, 2), NoLastChat(DirectA, 0), NoLastChat(DirectA, 1),
     NoLastChat(LidA, 0), NullTimeChat(LidA), Chat(StatusJid, 3), Chat(BroadcastJid, 3)}

FilterLists == UNION {[1..n -> FilterPool] : n \in 0..MaxChats}
BannedSets == {{}, {PhoneA}}

InitFilters ==
    /\ InitCaches
    /\ now = 0
    /\ gw \in {[GatewayOne EXCEPT !.chats = c, !.banned = b] :
                 c \in FilterLists, b \in BannedSets}

NextFilters ==
    /\ \E limit \in 1..MaxLimit, offset \in 0..MaxOffset, search \in Searches :
          GetChatPage(limit, offset, search, FALSE, gw.fx)
    /\ UNCHANGED steps

SpecFilters == InitFilters /\ [][NextFilters]_vars

ChatPageServed == last.op = "GetChatPage" /\ ~last.raised /\ last.response # <<>>

PseudoChat(chat) ==
    \E i \in 1..Len(chat.remoteJid) : chat.remoteJid[i] = "broadcast"

NoLastMessage(chat) == chat.lastMessage = <<>>

\* the raw chat a row was built from
RowOf(item, chat) ==
    /\ item.id = chat.remoteJid
    /\ item.unread_count = chat.unreadCount
    /\ item.last_message = LastMessagePreview(chat).content

\* the whole result is on the page
WholeResult == last.offset = 0 /\ Len(Items) = last.response[1].total

\* chat k is the only raw chat of its canonical identity
OnlyOfIdentity(k) ==
    \A j \in 1..Len(gw.chats) :
        j # k => CanonicalIdentity(gw.chats[j].remoteJid)
                    # CanonicalIdentity(gw.chats[k].remoteJid)

\* C32: every row of a chat page comes from a raw chat that is no broadcast/status
\* pseudo-chat and that has a last message or unread messages; and a raw chat
\* without last message but with unread messages, alone of its identity, not
\* banned and not searched away, has its row.
C32_EmptyAndPseudoChatsDropped ==
    ChatPageServed =>
        /\ \A i \in 1..Len(Items) :
              \E k \in 1..Len(gw.chats) :
                 /\ RowOf(Items[i], gw.chats[k])
                 /\ ~PseudoChat(gw.chats[k])
                 /\ ~(NoLastMessage(gw.chats[k]) /\ gw.chats[k].unreadCount = 0)
        /\ \A k \in 1..Len(gw.chats) :
              (/\ NoLastMessage(gw.chats[k]) /\ gw.chats[k].unreadCount > 0
               /\ OnlyOfIdentity(k)
               /\ gw.banned = {} /\ last.search = <<>> /\ WholeResult)
              => \E i \in 1..Len(Items) : RowOf(Items[i], gw.chats[k])

\* a list of a status pseudo-chat and an unread chat without last message: the
\* page has the row of the unread chat alone
C32_Witness ==
    /\ ChatPageServed
    /\ Len(gw.chats) = 2
    /\ gw.chats[1] = Chat(StatusJid, 3)
    /\ gw.chats[2] = NoLastChat(DirectA, 1)
    /\ Len(Items) = 1
    /\ Items[1].id = DirectA
    /\ Items[1].unread_count = 1

-----------------------------------------------------------------------------
(* SpecGroups: the name of a group row over every source of the name *)

SubjectThree == <<"C", "l", "u", "b">>
NameClan == <<"C", "l", "a", "n">>

\* the group's entry of the contact directory
GroupContact(push_name, subject, name) ==
    [Contact(GroupG, push_name, <<>>) EXCEPT !.subject = subject, !.name = name]

GroupDirectories ==
    {<<>>, <<GroupContact(<<>>, SubjectThree, <<>>)>>, <<GroupContact(<<>>, <<>>, NameClan)>>,
     <<GroupContact(NameClan, SubjectThree, <<>>)>>}

GroupChats == {<<[Chat(GroupG, 2) EXCEPT !.subject = s]>> : s \in {<<>>, SubjectTwo}}

GroupFx == {NoFx} \cup {[failing |-> FailKinds.group_subject, mode |-> m] : m \in FailModes}

GroupGateways ==
    {[GatewayOne EXCEPT !.chats = c, !.contacts = d, !.groupSubject = s, !.fx = fx] :
        c \in GroupChats, d \in GroupDirectories,
        s \in {EmptyDict, GroupG :> SubjectOne}, fx \in GroupFx}

InitGroups ==
    /\ InitCaches
    /\ now = 0
    /\ gw \in GroupGateways

\* the gateway's data change, or the gateway comes back or goes out of reach
GroupsChange ==
    /\ \E g \in GroupGateways : g # gw /\ gw' = g
    /\ last' = NoLast
    /\ UNCHANGED <<now, caches, storedAt, mediaCache, inflight>>

NextGroups ==
    /\ \/ GetChatPage(DefaultLimit, 0, <<>>, FALSE, gw.fx)
       \/ GroupsChange
    /\ UNCHANGED steps

SpecGroups == InitGroups /\ [][NextGroups]_vars

\* the subject held in the group-subject cache, <<>> when none is held
HeldSubject(jid) == IF jid \in DOMAIN groupNames.data THEN groupNames.data[jid] ELSE <<>>

\* the group's subject, else its name, in the contact directory the request read
DirectorySubject ==
    IF GroupG \in DOMAIN last.directory.entries
    THEN LET contact_info == last.directory.entries[GroupG]
         IN  IF contact_info.subject # <<>> THEN contact_info.subject ELSE contact_info.name
    ELSE <<>>

GeneratedLabel == GroupLabel \o <<"1", "2", "0", "3">>

FirstNonEmpty(names) ==
    IF \E i \in 1..Len(names) : names[i] # <<>>
    THEN names[CHOOSE i \in 1..Len(names) :
                  names[i] # <<>> /\ \A j \in 1..(i - 1) : names[j] = <<>>]
    ELSE <<>>

\* C33: the name of a group row is the subject held in the group-subject cache
\* after the prefetch, else the chat's subject, else the subject or name of the
\* contact directory, else the generated label; the group has its row whether or
\* not its subject could be fetched.
C33_GroupNameSources ==
    ChatPageServed =>
        /\ Len(Items) = 1
        /\ Items[1].id = GroupG
        /\ Items[1].name = FirstNonEmpty(<<HeldSubject(GroupG), gw.chats[1].subject,
                                           DirectorySubject, GeneratedLabel>>)

\* the subject fetch failed and nothing else names the group: the row carries the
\* generated label
C33_Witness ==
    /\ ChatPageServed
    /\ gw.fx.failing # {}
    /\ gw.groupSubject # EmptyDict
    /\ HeldSubject(GroupG) = <<>>
    /\ Len(Items) = 1
    /\ Items[1].name = GeneratedLabel

\* the cache holds an older subject than the gateway's, and names the row
C33_WitnessCached ==
    /\ ChatPageServed
    /\ gw.groupSubject = EmptyDict
    /\ gw.chats[1].subject = SubjectTwo
    /\ Items[1].name = SubjectOne

\* neither the cache nor the chat has a subject: the directory names the row
C33_WitnessDirectory ==
    /\ ChatPageServed
    /\ HeldSubject(GroupG) = <<>>
    /\ gw.chats[1].subject = <<>>
    /\ Items[1].name \in {SubjectThree, NameClan}

\* C34: a chat list whose records lack a last message or carry a null timestamp
\* never makes the chat page fail, the gateway answering every call.
C34_NullFieldsNeverFail ==
    (last.op = "GetChatPage" /\ gw.fx = NoFx) => ~last.raised

\* the failures are those of a null timestamp met by the first pass after another
\* chat of the same canonical identity
C34_FailsOnlyOnSharedIdentity ==
    (last.op = "GetChatPage" /\ last.raised) =>
        \E j, k \in 1..Len(gw.chats) :
            /\ j < k
            /\ CanonicalIdentity(gw.chats[j].remoteJid) = CanonicalIdentity(gw.chats[k].remoteJid)
            /\ \/ gw.chats[j] = NullTimeChat(gw.chats[j].remoteJid)
               \/ gw.chats[k] = NullTimeChat(gw.chats[k].remoteJid)

-----------------------------------------------------------------------------
(* SpecFlush: the caches are flushed while message-page requests wait *)

Suspended == {"contacts", "messages", "header", "prefetch"}

\* the request's record, noting the await at which a flush found it
FlushSeen(rec) ==
    IF rec.pc \in Suspended
    THEN [f \in DOMAIN rec \cup {"flushed_at"} |-> IF f = "flushed_at" THEN rec.pc ELSE rec[f]]
    ELSE rec

\* POST /{connector_type}/clear-cache while requests wait: clear_all_whatsapp_cache has no
\* await and rebinds the module-level caches, which the waiting requests look up
\* again by name when they store
FlushAll ==
    /\ clear_all_whatsapp_cache
    /\ inflight' = [r \in DOMAIN inflight |-> FlushSeen(inflight[r])]
    /\ last' = [NoLast EXCEPT !.op = "ClearCache", !.had = HadAny]
    /\ UNCHANGED <<now, gw, mediaCache>>

InitFlush ==
    /\ InitCaches
    /\ now = 0
    /\ gw \in RaceGateways

NextFlush ==
    \/ \E r \in Requests, jid \in RaceJids : PageBegin(r, jid, DefaultLimit, 1) /\ UNCHANGED steps
    \/ \E r \in Requests : PageContacts(r) /\ UNCHANGED steps
    \/ \E r \in Requests : PageMessages(r) /\ UNCHANGED steps
    \/ \E r \in Requests : PageEnd(r) /\ UNCHANGED steps
    \/ GatewayChanges /\ UNCHANGED steps
    \/ FlushAll /\ UNCHANGED steps

SpecFlush == InitFlush /\ [][NextFlush]_vars

\* a flush found request r waiting at one of the awaits `at`
FlushedAt(r, at) ==
    /\ "flushed_at" \in DOMAIN inflight[r]
    /\ inflight[r].flushed_at \in at

\* the page cache holds what request r stored
HoldsPageOf(r) ==
    /\ r \in StoredPage(r)
    /\ \A x \in StoredPage(r) : inflight[x].finished <= inflight[r].finished
    /\ Has(messagesCache, MessagesCacheKey(inflight[r].jid, inflight[r].limit, inflight[r].page))
    /\ messagesCache[MessagesCacheKey(inflight[r].jid, inflight[r].limit, inflight[r].page)]
          = [data |-> inflight[r].response[1], timestamp |-> inflight[r].current_time]

\* the directory cache holds what request r stored
HoldsDirectoryOf(r) ==
    /\ inflight[r].contactsStored > 0
    /\ inflight[r].contactsStored = ContactStores
    /\ contactsCache.timestamp = inflight[r].current_time
    /\ contactsCache.data = inflight[r].cc.map

\* C35: a request that was waiting for its contact fetch or for its message fetch
\* (or, the messages fetched, for its header lookups) when the caches were flushed
\* stores neither its directory nor its page into the flushed caches.
C35_NoStoreAcrossFlush ==
    \A r \in DOMAIN inflight :
        /\ FlushedAt(r, {"messages", "header"}) => ~HoldsPageOf(r)
        /\ FlushedAt(r, {"contacts"}) => ~HoldsDirectoryOf(r)

\* the state the claim excludes: the flush found the request with its messages
\* fetched, and the flushed page cache holds the request's page
C35_StalePageAfterFlush ==
    \E r \in DOMAIN inflight : FlushedAt(r, {"header"}) /\ HoldsPageOf(r)

-----------------------------------------------------------------------------
(* SpecClock: time passes while message-page requests wait for the gateway.  *)
(* What the gateway holds at time t spells t, so that what a cache returns   *)
(* tells when the gateway gave it.                                           *)

ClockPoints == {0, 20, 40, 290, 310}

\* the gateway at time t: the newest message of the chat has id and time t, the
\* contact is named after t
GatewayAt(t) ==
    [GatewayOne EXCEPT
        !.contacts = <<Contact(DirectA, <<"A">> \o IntToStr(t), PicUrlA)>>,
        !.messages = (DirectA :> Held(<<Message(DirectA, IntToStr(t), t)>>))]

InitClock ==
    /\ InitCaches
    /\ now = 0
    /\ gw = GatewayAt(0)

\* time passes, and the gateway's data with it
Tick ==
    /\ \E t \in ClockPoints : t > now /\ now' = t /\ gw' = GatewayAt(t)
    /\ last' = NoLast
    /\ UNCHANGED <<caches, storedAt, mediaCache, inflight>>

NextClock ==
    \/ \E r \in Requests : PageBegin(r, DirectA, DefaultLimit, 1) /\ UNCHANGED steps
    \/ \E r \in Requests : PageContacts(r) /\ UNCHANGED steps
    \/ \E r \in Requests : PageMessages(r) /\ UNCHANGED steps
    \/ \E r \in Requests : PageEnd(r) /\ UNCHANGED steps
    \/ Tick /\ UNCHANGED steps

SpecClock == InitClock /\ [][NextClock]_vars

\* the message page just returned came from the cache
PageHit == last.op = "GetMessagePage" /\ last.hit /\ last.response # <<>>

\* request r was given the cached contact directory when it began
DirectoryHit(r) ==
    /\ inflight[r].op = "GetMessagePage"
    /\ inflight[r].pc \in {"messages", "header", "done"}
    /\ inflight[r].cc.calls = <<>>
    /\ ~inflight[r].cc.raised

\* the times s, less than `ttl` before t, at which the gateway held the data
GivenWithin(t, ttl) == {s \in ClockPoints : s <= t /\ t - s < ttl}

\* C36: a message page returned from the cache is the gateway's data of less than
\* 30 seconds before the return, and a contact directory returned from the cache
\* is the gateway's data of less than 5 minutes before, however long the fetches
\* took.
C36_CachedDataYoungerThanTtl ==
    /\ PageHit =>
          \E s \in GivenWithin(now, MessagesTtl) :
              /\ Len(Items) = 1
              /\ Items[1].id = IntToStr(s)
    /\ \A r \in DOMAIN inflight :
          DirectoryHit(r) =>
              \E s \in GivenWithin(inflight[r].current_time, ContactsTtl) :
                  inflight[r].cc.map = BuildContactsMap(GatewayAt(s).contacts)

\* a page fetched at 20 by a request begun at 0 and ended at 20 or later is
\* returned from the cache at 20: the entry carries the time 0
C36_Witness ==
    /\ PageHit
    /\ now = 20
    /\ Items[1].id = IntToStr(20)
    /\ messagesCache[MessagesCacheKey(DirectA, DefaultLimit, 1)].timestamp = 0

\* a directory fetched at 20 is given from the cache to a request begun at 290
C36_WitnessDirectory ==
    \E r \in DOMAIN inflight :
        /\ DirectoryHit(r)
        /\ inflight[r].current_time = 290
        /\ inflight[r].cc.map = BuildContactsMap(GatewayAt(20).contacts)

-----------------------------------------------------------------------------
(* The contact directory after a refetch that fails (Spec) *)

\* the gateway gives no contacts: the call fails, or the list is empty
NoContactsGiven == FindContacts \in gw.fx.failing \/ gw.contacts = <<>>

\* C37: when a stored contact directory has expired and the refetch fails or
\* returns nothing, what is stored afterwards is no fresh valid entry: a read at
\* the same time would fetch again.
C37_FailedRefetchNotStoredFresh ==
    [][(/\ ReadsContacts
        /\ DictTruthy(contactsCache.data)
        /\ now - contactsCache.timestamp >= ContactsTtl
        /\ NoContactsGiven)
       => ~ContactsFresh(contactsCache', now)]_vars

\* the state the claim excludes: a directory without any contact, stored at the
\* present time and served as fresh, while the gateway is out of reach
C37_EmptyDirectoryFresh ==
    /\ last.op \in ReadOps
    /\ FindContacts \in gw.fx.failing
    /\ now >= ContactsTtl
    /\ contactsCache.timestamp = now
    /\ DOMAIN contactsCache.data.entries = {}
    /\ ContactsFresh(contactsCache, now)

\* C38: with show_banned false, a chat page has no row of a contact whose phone is
\* banned, whatever the kind of the chat that is the contact's row.
C38_NoRowOfBannedContact ==
    (ChatPageServed /\ PhoneA \in gw.banned) =>
        \A i \in 1..Len(Items) : CanonicalIdentity(Items[i].id) # DirectA

\* the direct chat of the banned phone is dropped
C38_DirectChatDropped ==
    (ChatPageServed /\ PhoneA \in gw.banned) =>
        \A i \in 1..Len(Items) : Items[i].id # DirectA

\* the state the claim excludes: the row of the @lid chat mapped to the direct
\* identifier of the banned phone
C38_BannedLidRow ==
    /\ ChatPageServed
    /\ PhoneA \in gw.banned
    /\ Len(Items) = 1
    /\ Items[1].id = LidA
    /\ Items[1].phone_jid = DirectA
    /\ ~Items[1].is_banned

\* C39: filtering loses no contact: a raw chat that passes every filter has the
\* row of its canonical identity on the page, also when an earlier raw chat of
\* the same identity is dropped by a filter.
C39_FilteredChatLeavesLaterChat ==
    (ChatPageServed /\ gw.banned = {} /\ last.search = <<>> /\ WholeResult) =>
        \A k \in 1..Len(gw.chats) :
            (~PseudoChat(gw.chats[k])
             /\ ~(NoLastMessage(gw.chats[k]) /\ gw.chats[k].unreadCount = 0))
            => \E i \in 1..Len(Items) :
                  CanonicalIdentity(Items[i].id) = CanonicalIdentity(gw.chats[k].remoteJid)

\* the state the claim excludes: an empty chat listed before the chat of the same
\* identifier that has a last message, and a page without rows
C39_ContactLost ==
    /\ ChatPageServed
    /\ gw.chats = <<NoLastChat(DirectA, 0), Chat(DirectA, 1)>>
    /\ gw.banned = {}
    /\ last.search = <<>>
    /\ last.offset = 0
    /\ last.response[1].total = 0

-----------------------------------------------------------------------------
(* SpecMapping: the @lid -> phone mapping over contacts with a usable avatar, *)
(* with an avatar whose file name is too short, and without avatar            *)

PicUrlS == <<"h", "/", "fpS">>

MappingPool ==
    {Contact(DirectA, NameAli, PicUrlA), Contact(DirectA, NameAli, <<>>),
     Contact(DirectB, NameAly, PicUrlS), Contact(DirectB, NameAly, PicUrlA),
     Contact(LidA, NameAli, PicUrlA), Contact(LidA, NameAli, <<>>),
     Contact(LidB, NameAly, PicUrlS)}

MappingLists == UNION {[1..n -> MappingPool] : n \in 0..MaxContacts}

InitMapping ==
    /\ InitCaches
    /\ now = 0
    /\ gw \in {[GatewayOne EXCEPT !.contacts = d] : d \in MappingLists}

NextMapping ==
    /\ GetChatPage(DefaultLimit, 0, <<>>, FALSE, gw.fx)
    /\ UNCHANGED steps

SpecMapping == InitMapping /\ [][NextMapping]_vars

\* the file name of the avatar of record k: what follows the last "/" of the URL,
\* up to the first "?"
AvatarFile(k) ==
    LET url == gw.contacts[k].profilePicUrl
        slashes == {i \in 1..Len(url) : url[i] = "/"}
        from == IF slashes = {} THEN 1
                ELSE 1 + CHOOSE i \in slashes : \A j \in slashes : j <= i
        marks == {i \in from..Len(url) : url[i] = "?"}
        to == IF marks = {} THEN Len(url)
              ELSE (CHOOSE i \in marks : \A j \in marks : i <= j) - 1
    IN  [i \in 1..(to - from + 1) |-> url[from + i - 1]]

\* record k has the identifier `jid` and an avatar URL
RecordWithAvatar(k, jid) ==
    /\ gw.contacts[k].remoteJid = jid
    /\ gw.contacts[k].profilePicUrl # <<>>

MappingBuilt == last.op = "GetChatPage" /\ last.response # <<>>

\* C40: each key of the @lid -> phone mapping is the identifier of an @lid contact
\* record with an avatar URL, and its value the identifier of a direct contact
\* record with an avatar URL, the two avatars having the same file name, longer
\* than 10 characters; an identifier that no record gives an avatar URL is neither
\* key nor value.
C40_MappingJoinsEqualAvatars ==
    MappingBuilt =>
        LET lid_to_phone_map == last.directory.lid_to_phone
            records == 1..Len(gw.contacts)
        IN  /\ \A lid \in DOMAIN lid_to_phone_map :
                  \E k, d \in records :
                     /\ RecordWithAvatar(k, lid)
                     /\ Contains(lid, SuffixLid)
                     /\ RecordWithAvatar(d, lid_to_phone_map[lid])
                     /\ Contains(lid_to_phone_map[lid], SuffixDirect)
                     /\ AvatarFile(k) = AvatarFile(d)
                     /\ StrLen(AvatarFile(k)) > 10
            /\ \A k \in records :
                  (\A e \in records :
                      gw.contacts[e].remoteJid = gw.contacts[k].remoteJid
                         => gw.contacts[e].profilePicUrl = <<>>)
                  => /\ gw.contacts[k].remoteJid \notin DOMAIN lid_to_phone_map
                     /\ \A lid \in DOMAIN lid_to_phone_map :
                           lid_to_phone_map[lid] # gw.contacts[k].remoteJid

\* a directory with a mapped pair, an @lid and a direct contact that share an
\* avatar whose file name is too short: only the first pair is in the mapping
C40_Witness ==
    /\ MappingBuilt
    /\ gw.contacts = <<Contact(LidA, NameAli, PicUrlA), Contact(DirectB, NameAly, PicUrlA),
                       Contact(LidB, NameAly, PicUrlS)>>
    /\ DOMAIN last.directory.lid_to_phone = {LidA}
    /\ last.directory.lid_to_phone[LidA] = DirectB

====
